---- MODULE Spec2Model ----
(***************************************************************************)
(* A model of the weaver daemon (weaverd) and its RPC dispatcher.          *)
(*                                                                         *)
(* Python values are records [t |-> <type tag>, v |-> <payload>].  Byte    *)
(* strings are sequences of text fragments; the fragment "\n" is the line  *)
(* terminator.  JSON text is built by string concatenation, exactly as     *)
(* msgspec writes it (compact, struct fields in definition order).         *)
(***************************************************************************)
EXTENDS Integers, Sequences, FiniteSets, TLC

VARIABLES
    HANDLERS,     \* weaverd.server.HANDLERS: list of (name, func)
    handlers,     \* RPCDispatcher._handlers: dict name -> func
    phase,        \* where the worker process is in its life
    raised,       \* the exception the last registration call raised ("" if none)
    bound,        \* history: the func each name was first registered with
    gen,          \* the async generator returned by RPCDispatcher.handle
    out,          \* the chunks that generator has yielded so far
    conns,        \* the connections the listener has accepted
    client,       \* the rpc_call in progress on the client side
    sock,         \* the socket path of the worker: what was and what is there
    calc,         \* a function applied on its own: its argument and its result
    workers       \* worker processes starting on one socket path: where each is

vars ==
    <<HANDLERS, handlers, phase, raised, bound, gen, out, conns, client, sock, calc,
      workers>>

-----------------------------------------------------------------------------
(* Bounds of the model *)

\* registrations made through rpc_handler / register in one run
MaxRegs == 3
\* handlers left out of a dispatcher's table when a request is dispatched
MaxUnregistered == 1

-----------------------------------------------------------------------------
(* Python values *)

None_ == [t |-> "none", v |-> ""]
Num(s) == [t |-> "num", v |-> s]
Str(s) == [t |-> "str", v |-> s]
Bool(s) == [t |-> "bool", v |-> s]
Dict(pairs) == [t |-> "dict", v |-> pairs]
List(xs) == [t |-> "list", v |-> xs]
Struct(pairs) == [t |-> "struct", v |-> pairs]
Bytes(frags) == [t |-> "bytes", v |-> frags]
Raw(frags) == [t |-> "raw", v |-> frags]
Object == [t |-> "object", v |-> ""]
\* no value: a key a dict does not have, a field without a default
Absent == [t |-> "absent", v |-> ""]

\* what running a piece of code to its end gives
Return(val) == [o |-> "return", val |-> val, cls |-> "", msg |-> ""]
Raise(cls, msg) == [o |-> "raise", val |-> None_, cls |-> cls, msg |-> msg]
Stall == [o |-> "stall", val |-> None_, cls |-> "", msg |-> ""]

\* a coroutine object, an asynchronous generator and a synchronous generator:
\* the items it produces, then how it ends
Coroutine(outcome) == [t |-> "coroutine", v |-> outcome]
AsyncGen(items, end) == [t |-> "async_generator", v |-> [items |-> items, end |-> end]]
SyncGen(items, end) == [t |-> "generator", v |-> [items |-> items, end |-> end]]
Stop == [o |-> "stop", val |-> None_, cls |-> "", msg |-> ""]

\* no function is being applied on its own; and the result of one that has
\* not returned yet
NoResult == [o |-> "none", val |-> None_, cls |-> "", msg |-> ""]
NoCalc == [fn |-> "", kind |-> "", arg |-> None_, mid |-> NoResult, res |-> NoResult]

\* a Python bool
PyBool(b) == Bool(IF b THEN "true" ELSE "false")

\* exception classes that derive from BaseException but not from Exception
BaseOnly == {"CancelledError", "KeyboardInterrupt"}

IsException(outcome) == outcome.o = "raise" /\ outcome.cls \notin BaseOnly

-----------------------------------------------------------------------------
(* The wire codec: msgspec.json *)

RECURSIVE Concat(_)
Concat(frags) ==
    IF frags = <<>> THEN "" ELSE Head(frags) \o Concat(Tail(frags))

RECURSIVE Encodable(_)
Encodable(val) ==
    CASE val.t \in {"none", "num", "str", "bool", "bytes", "raw"} -> TRUE
      [] val.t \in {"dict", "struct"} ->
            \A i \in 1..Len(val.v) : Encodable(val.v[i][2])
      [] val.t = "list" -> \A i \in 1..Len(val.v) : Encodable(val.v[i])
      [] OTHER -> FALSE

RECURSIVE Text(_)
RECURSIVE Members(_)
RECURSIVE Elements(_)
Members(pairs) ==
    IF pairs = <<>> THEN ""
    ELSE "\"" \o Head(pairs)[1] \o "\":" \o Text(Head(pairs)[2])
         \o (IF Len(pairs) > 1 THEN "," ELSE "") \o Members(Tail(pairs))
Elements(xs) ==
    IF xs = <<>> THEN ""
    ELSE Text(Head(xs)) \o (IF Len(xs) > 1 THEN "," ELSE "") \o Elements(Tail(xs))
Text(val) ==
    CASE val.t = "none" -> "null"
      [] val.t \in {"num", "bool"} -> val.v
      [] val.t = "str" -> "\"" \o val.v \o "\""
      [] val.t \in {"dict", "struct"} -> "{" \o Members(val.v) \o "}"
      [] val.t = "list" -> "[" \o Elements(val.v) \o "]"
      [] val.t = "bytes" -> "\"base64(" \o Concat(val.v) \o ")\""
      [] val.t = "raw" -> Concat(val.v)

\* msjson.encode(val): the bytes, or the TypeError msgspec raises
Encode(val) ==
    IF Encodable(val) THEN Return(Bytes(<<Text(val)>>))
    ELSE Raise("TypeError", "Encoding objects of type " \o val.t \o " is unsupported")

\* weaver_schemas.error.SchemaError(message=message)
SchemaError(message) == Struct(<< <<"message", Str(message)>>, <<"type", Str("error")>> >>)

HasKey(pairs, key) == \E i \in 1..Len(pairs) : pairs[i][1] = key
Get(pairs, key) == pairs[CHOOSE i \in 1..Len(pairs) : pairs[i][1] = key][2]

\* record.get(key), None when the key is absent
DictGet(pairs, key) == IF HasKey(pairs, key) THEN Get(pairs, key) ELSE None_

\* bool(val)
Truthy(val) ==
    CASE val.t = "none" -> FALSE
      [] val.t = "str" -> val.v # ""
      [] val.t = "num" -> val.v \notin {"0", "0.0"}
      [] val.t = "bool" -> val.v = "true"
      [] val.t \in {"dict", "list"} -> val.v # <<>>
      [] OTHER -> TRUE

-----------------------------------------------------------------------------
(* Request lines a peer can send *)

MethodNames ==
    {"project-status", "echo", "numbers", "boom", "onboard-project",
     "list-diagnostics", "items", "countdown", "blob", "widget", "widgets",
     "mapping", "text", "reject", "nothing", "sleep", "count", "flag", "void",
     "missing"}

ParamForms ==
    {<<>>,
     << <<"params", None_>> >>,
     << <<"params", Dict(<<>>)>> >>,
     << <<"params", Dict(<< <<"value", Num("42")>> >>)>> >>,
     << <<"params", Dict(<< <<"bogus", Num("1")>> >>)>> >>,
     << <<"params", Dict(<< <<"severity", Str("error")>> >>)>> >>,
     << <<"params", List(<<>>)>> >>,
     << <<"id", Num("7")>> >>}

\* JSON documents whose text a peer may send as a request
RequestDocs ==
    {Dict(<< <<"method", Str(m)>> >> \o p) : m \in MethodNames, p \in ParamForms}
    \cup {Dict(<< <<"params", Dict(<<>>)>> >>),
          Dict(<< <<"method", Num("42")>> >>),
          Dict(<< <<"method", None_>> >>),
          Num("42"),
          List(<<>>)}

\* texts that are not JSON at all
Malformed == {<<"not-json">>, <<>>, <<"{\"method\":\"numbers\"">>}

\* what bytes.rstrip() removes
Whitespace == {"\n", " ", "\r", "\t"}

RECURSIVE rstrip(_)
rstrip(data) ==
    IF data # <<>> /\ data[Len(data)] \in Whitespace
    THEN rstrip(SubSeq(data, 1, Len(data) - 1))
    ELSE data

\* every request body handle() is given in this model
RequestData == {<<Text(d)>> : d \in RequestDocs} \cup Malformed

\* the JSON parser: the document whose text this is, or a DecodeError
JsonTexts == {Text(d) : d \in RequestDocs}
DocOfText == [s \in JsonTexts |-> CHOOSE d \in RequestDocs : Text(d) = s]

ParseJson(data) ==
    LET s == Concat(data) IN
    IF s \in JsonTexts THEN Return(DocOfText[s])
    ELSE IF s = "" \/ data = <<"{\"method\":\"numbers\"">>
         THEN Raise("DecodeError", "Input data was truncated")
         ELSE Raise("DecodeError", "JSON is malformed: invalid character (byte 0)")

JsonType(val) ==
    CASE val.t = "none" -> "null"
      [] val.t = "num" -> "int"
      [] val.t = "list" -> "array"
      [] val.t = "dict" -> "object"
      [] OTHER -> val.t

\* msjson.decode(data, type=RPCRequest): the request as a record, or the
\* DecodeError (ValidationError is one) msgspec raises
DecodeAsRequest(data) ==
    LET parsed == ParseJson(data) IN
    IF parsed.o = "raise" THEN parsed
    ELSE LET doc == parsed.val IN
         IF doc.t # "dict"
         THEN Raise("DecodeError", "Expected object, got " \o JsonType(doc) \o "")
         ELSE IF ~HasKey(doc.v, "method")
         THEN Raise("DecodeError", "Object missing required field method")
         ELSE IF Get(doc.v, "method").t # "str"
         THEN Raise("DecodeError", "Expected str, got "
                        \o JsonType(Get(doc.v, "method")) \o " - at $.method")
         ELSE IF HasKey(doc.v, "params") /\ Get(doc.v, "params").t \notin {"dict", "none"}
         THEN Raise("DecodeError", "Expected object | null, got "
                        \o JsonType(Get(doc.v, "params")) \o " - at $.params")
         ELSE Return([method |-> Get(doc.v, "method").v,
                      params |-> IF HasKey(doc.v, "params")
                                 THEN Get(doc.v, "params") ELSE None_])

\* RPCDispatcher._encode_error
EncodeError(message) == Encode(SchemaError(message)).val

\* DecodeRequest with another wording of the error
DecodeRequestReworded(data) ==
    LET r == DecodeAsRequest(data) IN
    IF r.o = "raise" /\ r.cls = "DecodeError"
    THEN [request |-> None_, err |-> EncodeError("bad request: " \o r.msg)]
    ELSE [request |-> r.val, err |-> None_]

\* RPCDispatcher._decode_request: (request, None) or (None, error chunk)
DecodeRequest(data) ==
    LET r == DecodeAsRequest(data) IN
    IF r.o = "raise" /\ r.cls = "DecodeError"
    THEN [request |-> None_, err |-> EncodeError("invalid request: " \o r.msg)]
    ELSE [request |-> r.val, err |-> None_]

-----------------------------------------------------------------------------
(* Handler functions: those of the unit and feature tests, and one for each *)
(* result shape and failure point the dispatcher distinguishes             *)

FuncIds ==
    {"project-status", "echo", "numbers", "boom", "onboard-project",
     "list-diagnostics", "items", "countdown", "blob", "widget", "widgets",
     "mapping", "text", "reject", "nothing", "sleep", "count", "flag", "void"}

\* the state of the analysis collaborator (the serena-agent package) in the
\* worker's installation: importable with working tools, not importable,
\* importable without the tool asked for, or with a tool that raises
Serena == {"present", "no-package", "no-tool", "fails"}

\* the handlers weaverd.server decorates, one for each installation
WorkerHandlers ==
    {"handle_project_status", "handle_onboard_project", "handle_list_diagnostics"}

WorkerFunc(h, s) == h \o " [serena " \o s \o "]"
WorkerFuncIds == {WorkerFunc(h, s) : h \in WorkerHandlers, s \in Serena}
HandlerOf(func) == CHOOSE h \in WorkerHandlers : \E s \in Serena : WorkerFunc(h, s) = func
SerenaOf(func) == CHOOSE s \in Serena : \E h \in WorkerHandlers : WorkerFunc(h, s) = func

\* the keyword parameters a function declares without and with a default
Required(func) == IF func = "echo" THEN {"value"} ELSE {}
Optional(func) ==
    IF func \in WorkerFuncIds /\ HandlerOf(func) = "handle_list_diagnostics"
    THEN {"severity", "files"} ELSE {}

Keys(pairs) == {pairs[i][1] : i \in 1..Len(pairs)}

ProjectStatus(pid, rss, ready, message) ==
    Struct(<< <<"pid", pid>>, <<"rss_mb", rss>>, <<"ready", ready>>,
              <<"message", message>>, <<"type", Str("project-status")>> >>)

\* weaver_schemas: the records, with their fields in declaration order
Position(line, character) == Struct(<< <<"line", line>>, <<"character", character>> >>)
Range(start, end) == Struct(<< <<"start", start>>, <<"end", end>> >>)
Location(file, range) == Struct(<< <<"file", file>>, <<"range", range>> >>)
Diagnostic(location, severity, code, message) ==
    Struct(<< <<"location", location>>, <<"severity", severity>>, <<"code", code>>,
              <<"message", message>>, <<"type", Str("diagnostic")>> >>)
CodeEdit(file, range, new_text) ==
    Struct(<< <<"file", file>>, <<"range", range>>, <<"new_text", new_text>>,
              <<"type", Str("edit")>> >>)
ImpactReport(diagnostics) ==
    Struct(<< <<"diagnostics", diagnostics>>, <<"type", Str("impact")>> >>)
TestResult(name, status, output) ==
    Struct(<< <<"name", name>>, <<"status", status>>, <<"output", output>>,
              <<"type", Str("test-result")>> >>)
OnboardingReport(details) ==
    Struct(<< <<"details", details>>, <<"type", Str("onboarding")>> >>)

\* _load_serena_tool(tool_attr): the tool, or the RuntimeError
LoadSerenaTool(serena, tool_attr) ==
    IF serena = "no-package"
    THEN Raise("RuntimeError",
               "serena-agent is required; install it via 'uv add serena-agent'.")
    ELSE IF serena = "no-tool"
    THEN Raise("RuntimeError", tool_attr \o " not found in serena")
    ELSE Return(Object)

\* handle_project_status
HandleProjectStatus(serena) ==
    LET ready == serena # "no-package" IN
    Coroutine(Return(ProjectStatus(Num("1"), Num("0.1"), PyBool(ready),
                                   Str(IF ready THEN "ok" ELSE "serena missing"))))

\* handle_onboard_project
HandleOnboardProject(serena) ==
    LET tool == LoadSerenaTool(serena, "OnboardingTool") IN
    IF tool.o = "raise" THEN Coroutine(tool)
    ELSE IF serena = "fails"
    THEN Coroutine(Raise("RuntimeError", "Onboarding failed: boom"))
    ELSE Coroutine(Return(OnboardingReport(Str("project onboarding"))))

\* what the diagnostics tool lists
ToolDiagnostics ==
    <<Diagnostic(Location(Str("foo.py"),
                          Range(Position(Num("1"), Num("0")), Position(Num("1"), Num("3")))),
                 Str("Error"), Str("E123"), Str("oh no")),
      Diagnostic(Location(Str("bar.py"),
                          Range(Position(Num("2"), Num("0")), Position(Num("2"), Num("1")))),
                 Str("Warning"), None_, Str("msg"))>>

\* str.lower on the texts of severities and paths
StrLower(s) ==
    CASE s = "Error" \/ s = "ERROR" -> "error"
      [] s = "Warning" -> "warning"
      [] s = "Info" -> "info"
      [] s = "Hint" -> "hint"
      [] s = "Foo.Py" \/ s = "FOO.py" -> "foo.py"
      [] OTHER -> s

\* the components of a path, split at "/"
PathParts(path) ==
    CASE path = "" -> <<>>
      [] path = "./FOO.py" -> <<".", "FOO.py">>
      [] path = "src/../foo.py" -> <<"src", "..", "foo.py">>
      [] path = "src/bar.py" -> <<"src", "bar.py">>
      [] OTHER -> <<path>>

\* os.path.normpath on a relative path: its loop over the components
RECURSIVE Collapse(_, _)
Collapse(new_comps, comps) ==
    IF comps = <<>> THEN new_comps
    ELSE LET comp == Head(comps) IN
         IF comp \in {"", "."} THEN Collapse(new_comps, Tail(comps))
         ELSE IF comp # ".." \/ new_comps = <<>> \/ new_comps[Len(new_comps)] = ".."
         THEN Collapse(Append(new_comps, comp), Tail(comps))
         ELSE Collapse(SubSeq(new_comps, 1, Len(new_comps) - 1), Tail(comps))

RECURSIVE JoinPath(_)
JoinPath(comps) ==
    IF comps = <<>> THEN "."
    ELSE IF Len(comps) = 1 THEN comps[1]
    ELSE comps[1] \o "/" \o JoinPath(Tail(comps))

\* os.path.normcase(os.path.normpath(path)).lower(); normcase changes
\* nothing on POSIX
NormPath(path) ==
    LET comps == Collapse(<<>>, PathParts(path)) IN
    JoinPath([i \in 1..Len(comps) |-> StrLower(comps[i])])

\* a set of texts
SetOf(elems) == [t |-> "set", v |-> elems]

\* NormalizeFilters comparing the filters as they were given
NormalizeFiltersAsGiven(kwargs) ==
    LET severity == DictGet(kwargs, "severity")
        files == DictGet(kwargs, "files")
    IN  [severity |-> IF Truthy(severity) THEN severity ELSE None_,
         files |-> IF Truthy(files)
                   THEN SetOf({files.v[n] : n \in 1..Len(files.v)})
                   ELSE None_]

\* _normalize_filters(severity, files)
NormalizeFilters(kwargs) ==
    LET severity == DictGet(kwargs, "severity")
        files == DictGet(kwargs, "files")
    IN  [severity |-> IF Truthy(severity) THEN Str(StrLower(severity.v)) ELSE None_,
         files |-> IF Truthy(files)
                   THEN SetOf({Str(NormPath(files.v[n].v)) : n \in 1..Len(files.v)})
                   ELSE None_]

\* _normalize_diagnostic_data(diag)
NormalizeDiagnosticData(diag) ==
    LET severity == Get(diag.v, "severity")
        file == Get(Get(diag.v, "location").v, "file")
    IN  [severity |-> IF Truthy(severity) THEN Str(StrLower(severity.v)) ELSE None_,
         file |-> IF Truthy(file) THEN Str(NormPath(file.v)) ELSE None_]

\* _should_include_diagnostic(norm_severity, norm_files, diag_severity, diag_file)
ShouldIncludeDiagnostic(norm_severity, norm_files, diag_severity, diag_file) ==
    ~(\/ Truthy(norm_severity) /\ diag_severity # norm_severity
      \/ /\ norm_files.t = "set" /\ norm_files.v # {}
         /\ diag_file \notin norm_files.v)

\* the test handle_list_diagnostics makes of one diagnostic
ShouldInclude(kwargs, diag) ==
    LET norm == NormalizeFilters(kwargs)
        data == NormalizeDiagnosticData(diag)
    IN  ShouldIncludeDiagnostic(norm.severity, norm.files, data.severity, data.file)

RECURSIVE Included(_, _)
Included(kwargs, diags) ==
    IF diags = <<>> THEN <<>>
    ELSE (IF ShouldInclude(kwargs, Head(diags)) THEN <<Head(diags)>> ELSE <<>>)
         \o Included(kwargs, Tail(diags))

\* handle_list_diagnostics, an asynchronous generator function
HandleListDiagnostics(serena, kwargs) ==
    LET tool == LoadSerenaTool(serena, "ListDiagnosticsTool") IN
    IF tool.o = "raise" THEN AsyncGen(<<>>, tool)
    ELSE IF serena = "fails"
    THEN AsyncGen(<<>>, Raise("RuntimeError", "Diagnostics failed: boom"))
    ELSE AsyncGen(Included(kwargs, ToolDiagnostics), Stop)

\* what func(**kwargs) returns or raises once its arguments are bound
FuncBody(func, kwargs) ==
    CASE func \in WorkerFuncIds ->
            Return(CASE HandlerOf(func) = "handle_project_status" ->
                            HandleProjectStatus(SerenaOf(func))
                     [] HandlerOf(func) = "handle_onboard_project" ->
                            HandleOnboardProject(SerenaOf(func))
                     [] OTHER -> HandleListDiagnostics(SerenaOf(func), kwargs))
      [] func = "project-status" ->
            Return(Coroutine(Return(
                ProjectStatus(Num("1"), Num("0.1"), Bool("true"), Str("ok")))))
      [] func = "echo" ->
            LET value == Get(kwargs, "value") IN
            Return(Coroutine(Return(
                ProjectStatus(value, Num(value.v \o ".0"), Bool("true"), Str(value.v)))))
      [] func = "numbers" ->
            Return(AsyncGen(<<Num("0"), Num("1"), Num("2")>>, Stop))
      [] func = "boom" ->
            Return(AsyncGen(<<Num("1")>>, Raise("RuntimeError", "boom")))
      [] func = "onboard-project" ->
            Return(Coroutine(Raise("RuntimeError", "boom")))
      [] func = "list-diagnostics" ->
            Return(Coroutine(Return(Raw(<<"MALFORMED OUTPUT">>))))
      [] func = "items" -> Return(List(<<Num("1"), Num("2")>>))
      [] func = "countdown" ->
            Return(SyncGen(<<Num("2"), Num("1")>>, Raise("ValueError", "liftoff")))
      [] func = "blob" -> Return(Coroutine(Return(Bytes(<<"{\"kind\":\"blob\"}">>))))
      [] func = "widget" -> Return(Coroutine(Return(Object)))
      [] func = "widgets" -> Return(AsyncGen(<<Num("1"), Object, Num("2")>>, Stop))
      [] func = "mapping" ->
            Return(Coroutine(Return(
                Dict(<< <<"a", Num("1")>>, <<"b", Num("2")>> >>))))
      [] func = "text" -> Return(Str("hello"))
      [] func = "reject" -> Raise("ValueError", "rejected")
      [] func = "nothing" -> Return(AsyncGen(<<>>, Raise("RuntimeError", "empty")))
      [] func = "sleep" -> Return(Coroutine(Stall))
      [] func = "count" -> Return(Coroutine(Return(Num("7"))))
      [] func = "flag" -> Return(Coroutine(Return(Bool("true"))))
      [] func = "void" -> Return(Coroutine(Return(None_)))
      [] OTHER -> Return(Coroutine(Return(None_)))

\* whether kwargs can be bound to func's parameters
Binds(func, kwargs) ==
    /\ Required(func) \subseteq Keys(kwargs)
    /\ Keys(kwargs) \subseteq Required(func) \cup Optional(func)

\* Call dropping the arguments the function does not take
CallLenient(func, kwargs) ==
    IF Required(func) \ Keys(kwargs) # {}
    THEN Raise("TypeError", func \o "() missing 1 required positional argument: '"
                    \o (CHOOSE k \in Required(func) \ Keys(kwargs) : TRUE) \o "'")
    ELSE FuncBody(func, kwargs)

\* handler(**kwargs)
Call(func, kwargs) ==
    IF Keys(kwargs) \ (Required(func) \cup Optional(func)) # {}
    THEN Raise("TypeError", func \o "() got an unexpected keyword argument '"
                    \o (CHOOSE k \in Keys(kwargs) \ (Required(func) \cup Optional(func)) :
                            TRUE) \o "'")
    ELSE IF Required(func) \ Keys(kwargs) # {}
    THEN Raise("TypeError", func \o "() missing 1 required positional argument: '"
                    \o (CHOOSE k \in Required(func) \ Keys(kwargs) : TRUE) \o "'")
    ELSE FuncBody(func, kwargs)

-----------------------------------------------------------------------------
(* RPCDispatcher.handle, an asynchronous generator.  It is resumed by the  *)
(* consumer's anext (when created or suspended at a yield) and by the      *)
(* event loop (when suspended awaiting the handler or its next item), and  *)
(* runs without interruption to its next yield, await, return or raise.    *)

\* the generator object handle(data) returns; none of its body has run
NewGen(data) ==
    [pc |-> "created", data |-> data, src |-> Stop, items |-> <<>>, i |-> 0,
     async |-> FALSE, called |-> FALSE, ran |-> FALSE, exit |-> Stop]

NoGen == [NewGen(<<>>) EXCEPT !.pc = "none"]

\* the generator returns (StopAsyncIteration) or an exception leaves it
Finish(g, exit) ==
    [g |-> [g EXCEPT !.pc = "closed", !.exit = exit],
     ev |-> IF exit.o = "stop" THEN "stop" ELSE "raise", chunk |-> <<>>]

\* yield chunk; nothing but the return follows
YieldLast(g, chunk) ==
    [g |-> [g EXCEPT !.pc = "yield_last"], ev |-> "yield", chunk |-> chunk]

Suspend(g) == [g |-> g, ev |-> "suspend", chunk |-> <<>>]

\* Except without its except clause: the exception leaves the generator
ExceptPropagate(g, exc) == Finish(g, exc)

\* Except reporting repr(exc) in place of str(exc)
ExceptRepr(g, exc) ==
    IF IsException(exc)
    THEN YieldLast(g, EncodeError(exc.cls \o "('" \o exc.msg \o "')").v)
    ELSE Finish(g, exc)

\* except Exception as exc: yield self._encode_error(str(exc)); anything
\* else propagates
Except(g, exc) ==
    IF IsException(exc) THEN YieldLast(g, EncodeError(exc.msg).v) ELSE Finish(g, exc)

\* GetResultProcessor without its first test
GetResultProcessorNoBytes(result) ==
    IF result.t = "async_generator" THEN "_process_async_iterable_result"
    ELSE IF result.t \in {"list", "dict", "generator"}
    THEN "_process_sync_iterable_result"
    ELSE "_process_single_result"

\* RPCDispatcher._get_result_processor
GetResultProcessor(result) ==
    IF result.t = "bytes" THEN "_process_bytes_result"
    ELSE IF result.t = "async_generator" THEN "_process_async_iterable_result"
    ELSE IF result.t \in {"list", "dict", "generator"}
    THEN "_process_sync_iterable_result"
    ELSE "_process_single_result"

\* iter(result): the items the iteration produces and how it ends
IterItems(result) ==
    IF result.t = "dict" THEN [i \in 1..Len(result.v) |-> Str(result.v[i][1])]
    ELSE IF result.t = "list" THEN result.v
    ELSE result.v.items

IterEnd(result) == IF result.t \in {"dict", "list"} THEN Stop ELSE result.v.end

\* NextItem losing the first of several items
NextItemSkipFirst(g) ==
    LET h == IF g.i = 0 /\ Len(g.items) > 1 THEN [g EXCEPT !.i = 1] ELSE g IN
    IF h.i < Len(h.items)
    THEN [g |-> [h EXCEPT !.pc = "yield_item", !.i = h.i + 1, !.ran = TRUE],
          ev |-> "yield", chunk |-> Encode(h.items[h.i + 1]).val.v]
    ELSE Finish([h EXCEPT !.ran = TRUE], Stop)

\* one turn of the loop in _process_async_iterable_result and
\* _process_sync_iterable_result, entered with the source ready to answer
NextItem(g) ==
    IF g.i < Len(g.items)
    THEN LET e == Encode(g.items[g.i + 1]) IN
         IF e.o = "raise" THEN Except([g EXCEPT !.i = g.i + 1, !.ran = TRUE], e)
         ELSE [g |-> [g EXCEPT !.pc = "yield_item", !.i = g.i + 1, !.ran = TRUE],
               ev |-> "yield", chunk |-> e.val.v]
    ELSE IF g.src.o = "stop" THEN Finish([g EXCEPT !.ran = TRUE], Stop)
    ELSE Except([g EXCEPT !.ran = TRUE], g.src)

\* RPCDispatcher._process_result
ProcessResult(g, result) ==
    LET processor == GetResultProcessor(result) IN
    CASE processor = "_process_bytes_result" -> YieldLast(g, result.v)
      [] processor = "_process_async_iterable_result" ->
            Suspend([g EXCEPT !.pc = "pull", !.items = IterItems(result),
                              !.src = IterEnd(result), !.async = TRUE])
      [] processor = "_process_sync_iterable_result" ->
            NextItem([g EXCEPT !.items = IterItems(result), !.src = IterEnd(result)])
      [] processor = "_process_single_result" ->
            LET e == Encode(result) IN
            IF e.o = "raise" THEN Finish(g, e) ELSE YieldLast(g, e.val.v)

\* the handler None
NoHandler == "None"

\* Lookup falling back on some registered handler
LookupAny(tbl, method) ==
    IF method \in DOMAIN tbl THEN tbl[method]
    ELSE IF DOMAIN tbl = {} THEN NoHandler
    ELSE tbl[CHOOSE n \in DOMAIN tbl : TRUE]

\* self._handlers.get(request.method)
Lookup(tbl, method) == IF method \in DOMAIN tbl THEN tbl[method] ELSE NoHandler

\* RPCDispatcher._execute_handler up to the await, then handle's lines 115-120
ExecuteHandler(g, func, request) ==
    IF func = NoHandler
    THEN YieldLast(g, EncodeError("unknown method: " \o request.method).v)
    ELSE LET kwargs == IF request.params.t = "dict" THEN request.params.v ELSE <<>>
             result == Call(func, kwargs)
             \* the body of a generator function starts at its first item
             g1 == [g EXCEPT !.called = TRUE,
                             !.ran = /\ Binds(func, kwargs)
                                     /\ result.val.t \notin {"async_generator", "generator"}]
         IN  IF result.o = "raise" THEN Except(g1, result)
             ELSE IF result.val.t = "coroutine"
             THEN Suspend([g1 EXCEPT !.pc = "await", !.src = result.val.v])
             ELSE ProcessResult(g1, result.val)

\* whether the generator can run now: it is not finished, and what it
\* awaits (if anything) completes
Runnable(g) ==
    /\ g.pc \in {"created", "await", "pull", "yield_item", "yield_last"}
    /\ g.pc = "await" => g.src.o # "stall"
    /\ g.pc = "pull" /\ g.i = Len(g.items) => g.src.o # "stall"

\* RPCDispatcher.handle: run the generator from where it is suspended
Resume(g, tbl) ==
    CASE g.pc = "created" ->
            LET d == DecodeRequest(g.data) IN
            IF d.err # None_ THEN YieldLast(g, d.err.v)
            ELSE ExecuteHandler(g, Lookup(tbl, d.request.method), d.request)
      [] g.pc = "await" ->
            IF g.src.o = "raise" THEN Except(g, g.src)
            ELSE ProcessResult(g, g.src.val)
      [] g.pc = "pull" -> NextItem(g)
      [] g.pc = "yield_item" ->
            IF g.async THEN Suspend([g EXCEPT !.pc = "pull"]) ELSE NextItem(g)
      [] g.pc = "yield_last" -> Finish(g, Stop)

\* an exception delivered at the await the generator is suspended in: both
\* awaits are inside a try ... except Exception
Throw(g, exc) == Except(g, exc)

\* no rpc_call has been made
NoClient == [pc |-> "none"]

-----------------------------------------------------------------------------
(* Registration *)

Names(H) == {H[i][1] : i \in 1..Len(H)}

\* the last registration call: what was called with what, whether the name
\* was registered already, the list before the call, and what it raised
NoCall ==
    [op |-> "", name |-> "", func |-> "", had |-> FALSE, exc |-> "",
     before |-> <<>>, n |-> 0]

\* rpc_handler without its check
rpc_handler_unchecked(H, name, func) ==
    [HANDLERS |-> Append(H, <<name, func>>), exc |-> ""]

\* weaverd.server.rpc_handler(name)(func) on the list H: the list afterwards
\* and the exception raised ("" when none)
rpc_handler(H, name, func) ==
    IF \E i \in 1..Len(H) : H[i][1] = name
    THEN [HANDLERS |-> H, exc |-> "ValueError"]
    ELSE [HANDLERS |-> Append(H, <<name, func>>), exc |-> ""]

\* RPCDispatcher.register(name)(func) on the table tbl
register(tbl, name, func) ==
    [n \in DOMAIN tbl \cup {name} |-> IF n = name THEN func ELSE tbl[n]]

\* RPCDispatcher.__init__
EmptyTable == [n \in {} |-> ""]

\* main, lines 235-237: a new dispatcher with every entry of H registered
RECURSIVE RegisterAll(_, _)
RegisterAll(tbl, H) ==
    IF H = <<>> THEN tbl
    ELSE RegisterAll(register(tbl, Head(H)[1], Head(H)[2]), Tail(H))

\* history: the func a name is first registered with
FirstBound(b, name, func) ==
    IF name \in DOMAIN b THEN b ELSE register(b, name, func)

RECURSIVE FirstBoundAll(_, _)
FirstBoundAll(b, H) ==
    IF H = <<>> THEN b
    ELSE FirstBoundAll(FirstBound(b, Head(H)[1], Head(H)[2]), Tail(H))

\* names and functions used in registration calls
RegNames == {"dup", "echo"}
RegFuncs == {"first", "second", "echo"}

\* rpc_handler applied as a decorator
RpcHandler(name, func) ==
    /\ phase = "import"
    /\ raised.n < MaxRegs
    /\ LET r == rpc_handler(HANDLERS, name, func) IN
       /\ HANDLERS' = r.HANDLERS
       /\ raised' = [op |-> "rpc_handler", name |-> name, func |-> func,
                     had |-> name \in Names(HANDLERS), exc |-> r.exc,
                     before |-> HANDLERS, n |-> raised.n + 1]
    /\ UNCHANGED <<handlers, phase, bound, gen, out, conns, client, sock, calc, workers>>

\* dispatcher.register applied as a decorator, as the tests do
Register(name, func) ==
    /\ phase = "import"
    /\ raised.n < MaxRegs
    /\ handlers' = register(handlers, name, func)
    /\ bound' = FirstBound(bound, name, func)
    /\ raised' = [op |-> "register", name |-> name, func |-> func,
                  had |-> name \in DOMAIN handlers, exc |-> "",
                  before |-> <<>>, n |-> raised.n + 1]
    /\ UNCHANGED <<HANDLERS, phase, gen, out, conns, client, sock, calc, workers>>

\* what may be at the socket path when the worker starts: nothing, a socket
\* file nobody listens on, a socket file another worker listens on, a
\* regular file, a directory, a symbolic link to nothing
PathEntries == {"absent", "stale", "live", "file", "dir", "dangling"}

NewPath(entry) == [was |-> entry, now |-> entry, exc |-> Stop]

\* path.exists(), which follows symbolic links
Exists(entry) == entry \notin {"absent", "dangling"}

\* path.unlink(): what is there afterwards, and the exception raised
Unlink(entry) ==
    IF entry = "dir" THEN [now |-> entry, exc |-> Raise("IsADirectoryError", "Is a directory")]
    ELSE IF entry = "absent"
    THEN [now |-> entry, exc |-> Raise("FileNotFoundError", "No such file or directory")]
    ELSE [now |-> "absent", exc |-> Stop]

\* asyncio.start_unix_server(..., path=...): a socket file found at the path
\* is removed, and the listening socket is bound there
StartUnixServer(entry) ==
    IF entry \in {"absent", "stale", "live"} THEN [now |-> "bound", exc |-> Stop]
    ELSE [now |-> entry, exc |-> Raise("OSError", "Address is already in use")]

\* start_server refusing a path where something exists
start_server_exclusive(entry) ==
    IF Exists(entry) THEN [now |-> entry, exc |-> Raise("OSError", "Address is already in use")]
    ELSE StartUnixServer(entry)

\* start_server(path, dispatcher)
start_server(entry) ==
    IF Exists(entry)
    THEN LET u == Unlink(entry) IN
         IF u.exc.o = "raise" THEN u ELSE StartUnixServer(u.now)
    ELSE StartUnixServer(entry)

\* main up to serve_forever: the handlers are registered and the listener
\* is started, or start_server raises and main ends
Main ==
    /\ phase = "import"
    /\ handlers' = RegisterAll(EmptyTable, HANDLERS)
    /\ bound' = FirstBoundAll(EmptyTable, HANDLERS)
    /\ LET r == start_server(sock.now) IN
       /\ sock' = [sock EXCEPT !.now = r.now, !.exc = r.exc]
       /\ phase' = IF r.exc.o = "raise" THEN "failed" ELSE "serving"
    /\ UNCHANGED <<HANDLERS, raised, gen, out, conns, client, calc, workers>>

InitRegistry ==
    /\ HANDLERS = <<>>
    /\ handlers = EmptyTable
    /\ bound = EmptyTable
    /\ phase = "import"
    /\ raised = NoCall
    /\ gen = NoGen
    /\ out = <<>>
    /\ conns = <<>>
    /\ client = NoClient
    /\ sock \in {NewPath(entry) : entry \in PathEntries}
    /\ calc = NoCalc
    /\ workers = <<>>

NextRegistry ==
    \/ \E name \in RegNames, func \in RegFuncs : RpcHandler(name, func)
    \/ \E name \in RegNames, func \in RegFuncs : Register(name, func)
    \/ Main

SpecRegistry == InitRegistry /\ [][NextRegistry]_vars

-----------------------------------------------------------------------------
(* RPCDispatcher.handle on its own: one request, consumed with anext *)

\* each function registered under its own name, but for those left out
TableOf(funcs) == [n \in funcs |-> n]

\* the subsets of S with at most k elements
RECURSIVE SmallSubsets(_, _)
SmallSubsets(S, k) ==
    IF k = 0 THEN {{}}
    ELSE SmallSubsets(S, k - 1) \cup {U \cup {x} : U \in SmallSubsets(S, k - 1), x \in S}

Tables == {TableOf(FuncIds \ U) : U \in SmallSubsets(FuncIds, MaxUnregistered)}

\* the table main builds from the handlers weaverd.server decorates, in
\* each installation
WorkerTable(serena) ==
    [n \in {"project-status", "onboard-project", "list-diagnostics"} |->
        WorkerFunc(CASE n = "project-status" -> "handle_project_status"
                     [] n = "onboard-project" -> "handle_onboard_project"
                     [] OTHER -> "handle_list_diagnostics", serena)]

WorkerTables == {WorkerTable(serena) : serena \in Serena}

InitDispatch ==
    /\ HANDLERS = <<>>
    /\ handlers \in Tables \cup WorkerTables
    /\ bound = handlers
    /\ phase = "dispatch"
    /\ raised = NoCall
    /\ gen \in {NewGen(data) : data \in RequestData}
    /\ out = <<>>
    /\ conns = <<>>
    /\ client = NoClient
    /\ sock = NewPath("absent")
    /\ calc = NoCalc
    /\ workers = <<>>

\* await anext(results), with the generator at its start or at a yield
Anext ==
    /\ phase = "dispatch"
    /\ gen.pc \in {"created", "yield_item", "yield_last"}
    /\ LET r == Resume(gen, handlers) IN
       /\ gen' = r.g
       /\ out' = IF r.ev = "yield" THEN Append(out, r.chunk) ELSE out
    /\ UNCHANGED <<HANDLERS, handlers, phase, raised, bound, conns, client, sock, calc, workers>>

\* what the generator awaits completes, and the event loop resumes it
Wake ==
    /\ phase = "dispatch"
    /\ gen.pc \in {"await", "pull"}
    /\ Runnable(gen)
    /\ LET r == Resume(gen, handlers) IN
       /\ gen' = r.g
       /\ out' = IF r.ev = "yield" THEN Append(out, r.chunk) ELSE out
    /\ UNCHANGED <<HANDLERS, handlers, phase, raised, bound, conns, client, sock, calc, workers>>

NextDispatch == Anext \/ Wake

SpecDispatch == InitDispatch /\ [][NextDispatch]_vars

-----------------------------------------------------------------------------
(* The worker: weaverd.server.main and handle_client.  Every accepted      *)
(* connection is served by its own task running handle_client; a task runs *)
(* without interruption from one await to the next.                        *)

\* connections accepted in one run
MaxConns == 2
\* request lines the peers send in one run, all connections together
MaxLines == 2

\* the functions the worker's dispatcher is built from, in decoration order
Decorated ==
    <<"project-status", "onboard-project", "list-diagnostics", "echo",
      "numbers", "boom", "items", "countdown", "blob", "widget", "widgets",
      "mapping", "text", "reject", "nothing", "sleep">>

\* the body of a request for method m without params
RequestFor(m) == <<Text(Dict(<< <<"method", Str(m)>> >>))>>

\* the request bodies peers send to the worker
PeerBodies ==
    {<<"not-json">>, RequestFor("missing"), RequestFor("onboard-project"),
     RequestFor("boom"), RequestFor("widget"), RequestFor("numbers"),
     RequestFor("sleep")}

\* the request lines peers send to the worker
PeerLines ==
    {body \o <<"\n">> : body \in PeerBodies}
    \cup {RequestFor("numbers") \o <<"\r", "\n">>}

\* a connection just accepted: the task is at its first readline
NewConn ==
    [pc |-> "readline", g |-> NoGen, inbox |-> <<>>, eof |-> FALSE,
     lost |-> FALSE, sent |-> 0, arrived |-> <<>>,
     log |-> <<>>, closes |-> 0, exit |-> "", exc |-> Stop]

\* position of the first line terminator in buf, 0 when there is none
Newline(buf) ==
    IF \E i \in 1..Len(buf) : buf[i] = "\n"
    THEN CHOOSE i \in 1..Len(buf) :
            buf[i] = "\n" /\ \A j \in 1..(i - 1) : buf[j] # "\n"
    ELSE 0

\* whether reader.readline() returns now
ReadReady(c) == c.lost \/ c.eof \/ Newline(c.inbox) > 0

\* Finally closing the writer only when the loop ended at end of input
FinallyAtEofOnly(c, exit, exc) ==
    [c EXCEPT !.pc = "wait_closed",
              !.closes = IF exit = "eof" THEN c.closes + 1 ELSE c.closes,
              !.exit = exit, !.exc = exc]

\* the finally clause up to its await: writer.close(), with the exception
\* (Stop when there is none) left pending
Finally(c, exit, exc) ==
    [c EXCEPT !.pc = "wait_closed", !.closes = c.closes + 1, !.exit = exit,
              !.exc = exc]

\* lines 99-108: results = dispatcher.handle(data.rstrip()); calling an
\* async generator function runs none of its body, so nothing is raised here
Handle(c, data) ==
    [c EXCEPT !.pc = "anext", !.g = NewGen(rstrip(data)),
              !.log = Append(c.log, [data |-> data, out |-> <<>>])]

\* line 97: await reader.readline() returns or raises
ReadLine(c) ==
    IF c.lost THEN Finally(c, "read_error", Raise("ConnectionResetError", "Connection lost"))
    ELSE LET n == IF Newline(c.inbox) > 0 THEN Newline(c.inbox) ELSE Len(c.inbox)
             data == SubSeq(c.inbox, 1, n)
             rest == [c EXCEPT !.inbox = SubSeq(c.inbox, n + 1, Len(c.inbox))]
         IN  IF data = <<>> THEN Finally(c, "eof", Stop) ELSE Handle(rest, data)

\* line 110: writer.write(chunk + b"\n")
Write(c, chunk) ==
    [c EXCEPT !.pc = "drain",
              !.log[Len(c.log)].out = c.log[Len(c.log)].out \o chunk \o <<"\n">>]

\* Iterate hanging up once a response is complete
IterateHangUp(c, r) ==
    LET d == [c EXCEPT !.g = r.g] IN
    CASE r.ev = "yield" ->
            [d EXCEPT !.pc = "drain",
                      !.log[Len(c.log)].out = @ \o r.chunk \o <<"\n">>]
      [] r.ev = "suspend" -> d
      [] r.ev = "stop" -> [d EXCEPT !.pc = "wait_closed", !.closes = @ + 1,
                                    !.exit = "eof"]
      [] r.ev = "raise" ->
            [d EXCEPT !.pc = "wait_closed", !.closes = @ + 1,
                      !.exit = "serve_exception", !.exc = r.g.exit]

\* Iterate going back to read after the first chunk of a response
IterateOneChunk(c, r) ==
    LET d == [c EXCEPT !.g = r.g] IN
    CASE r.ev = "yield" ->
            [d EXCEPT !.pc = "readline",
                      !.log[Len(c.log)].out = @ \o r.chunk \o <<"\n">>]
      [] r.ev = "suspend" -> d
      [] r.ev = "stop" -> [d EXCEPT !.pc = "readline"]
      [] r.ev = "raise" ->
            [d EXCEPT !.pc = "wait_closed", !.closes = @ + 1,
                      !.exit = "serve_exception", !.exc = r.g.exit]

\* Iterate asking for the next chunk without awaiting the flush
IterateUnflushed(c, r) ==
    LET d == [c EXCEPT !.g = r.g] IN
    CASE r.ev = "yield" -> [Write(d, r.chunk) EXCEPT !.pc = "anext"]
      [] r.ev = "suspend" -> d
      [] r.ev = "stop" -> [d EXCEPT !.pc = "readline"]
      [] r.ev = "raise" ->
            Finally(d, IF r.g.exit.cls \in BaseOnly THEN "cancelled"
                       ELSE "serve_exception", r.g.exit)

\* line 109: async for chunk in results, one resumption of the generator
Iterate(c, r) ==
    LET d == [c EXCEPT !.g = r.g] IN
    CASE r.ev = "yield" -> Write(d, r.chunk)
      [] r.ev = "suspend" -> d
      [] r.ev = "stop" -> [d EXCEPT !.pc = "readline"]
      [] r.ev = "raise" ->
            Finally(d, IF r.g.exit.cls \in BaseOnly THEN "cancelled"
                       ELSE "serve_exception", r.g.exit)

\* line 111: await writer.drain() returns or raises
Drain(c) ==
    IF c.lost THEN Finally(c, "write_error", Raise("ConnectionResetError", "Connection lost"))
    ELSE [c EXCEPT !.pc = "anext"]

\* line 114: await writer.wait_closed() returns, and the pending exception
\* leaves handle_client
WaitClosed(c) == [c EXCEPT !.pc = "done"]

\* line 114: await writer.wait_closed() raises the error the connection
\* was lost with
WaitClosedRaises(c) ==
    [c EXCEPT !.pc = "done", !.exc = Raise("ConnectionResetError", "Connection lost")]

\* the task is cancelled while suspended at an await
Cancelled(c) ==
    LET exc == Raise("CancelledError", "") IN
    CASE c.pc \in {"readline", "drain"} -> Finally(c, "cancelled", exc)
      [] c.pc = "anext" -> Iterate(c, Throw(c.g, exc))
      [] c.pc = "wait_closed" -> [c EXCEPT !.pc = "done", !.exit = "cancelled", !.exc = exc]

\* request lines sent so far
Sent == LET n[i \in 0..Len(conns)] ==
                IF i = 0 THEN 0 ELSE n[i - 1] + conns[i].sent
        IN  n[Len(conns)]

InitWorker ==
    /\ HANDLERS = [i \in 1..Len(Decorated) |-> <<Decorated[i], Decorated[i]>>]
    /\ handlers = EmptyTable
    /\ bound = EmptyTable
    /\ phase = "import"
    /\ raised = NoCall
    /\ gen = NoGen
    /\ out = <<>>
    /\ conns = <<>>
    /\ client = NoClient
    /\ sock = NewPath("absent")
    /\ calc = NoCalc
    /\ workers = <<>>

Set(i, c) ==
    /\ conns' = [conns EXCEPT ![i] = c]
    /\ UNCHANGED <<HANDLERS, handlers, phase, raised, bound, gen, out, client, sock, calc, workers>>

\* Accept serving one connection at a time: the next is accepted when the
\* tasks of all before it have ended
AcceptOneAtATime ==
    /\ phase = "serving"
    /\ Len(conns) < MaxConns
    /\ \A i \in 1..Len(conns) : conns[i].pc = "done"
    /\ conns' = Append(conns, NewConn)
    /\ UNCHANGED <<HANDLERS, handlers, phase, raised, bound, gen, out, client, sock, calc, workers>>

\* Accept with the listener started before the dispatcher is built
AcceptEarly ==
    /\ phase \in {"import", "serving"}
    /\ Len(conns) < MaxConns
    /\ conns' = Append(conns, NewConn)
    /\ UNCHANGED <<HANDLERS, handlers, phase, raised, bound, gen, out, client, sock, calc, workers>>

\* the listener accepts a connection and starts its task
Accept ==
    /\ phase = "serving"
    /\ Len(conns) < MaxConns
    /\ conns' = Append(conns, NewConn)
    /\ UNCHANGED <<HANDLERS, handlers, phase, raised, bound, gen, out, client, sock, calc, workers>>

\* the peer sends a request line
PeerSend(i, line) ==
    /\ ~conns[i].eof /\ ~conns[i].lost
    /\ Sent < MaxLines
    /\ Set(i, [conns[i] EXCEPT !.inbox = @ \o line, !.sent = @ + 1,
                                !.arrived = @ \o line])

\* the peer shuts down its sending side
PeerEof(i) ==
    /\ ~conns[i].eof /\ ~conns[i].lost
    /\ Set(i, [conns[i] EXCEPT !.eof = TRUE])

\* the connection breaks
PeerReset(i) ==
    /\ ~conns[i].lost
    /\ conns[i].pc # "done"
    /\ Set(i, [conns[i] EXCEPT !.lost = TRUE])

DoReadLine(i) ==
    /\ conns[i].pc = "readline"
    /\ ReadReady(conns[i])
    /\ Set(i, ReadLine(conns[i]))

\* the task asks the generator for its next chunk, or the event loop
\* resumes the generator where it awaits
DoIterate(i) ==
    /\ conns[i].pc = "anext"
    /\ Runnable(conns[i].g)
    /\ \E r \in {Resume(conns[i].g, handlers)} : Set(i, Iterate(conns[i], r))

DoDrain(i) ==
    /\ conns[i].pc = "drain"
    /\ Set(i, Drain(conns[i]))

DoWaitClosed(i) ==
    /\ conns[i].pc = "wait_closed"
    /\ Set(i, WaitClosed(conns[i]))

DoWaitClosedRaises(i) ==
    /\ conns[i].pc = "wait_closed"
    /\ conns[i].lost
    /\ Set(i, WaitClosedRaises(conns[i]))

Cancel(i) ==
    /\ \/ conns[i].pc \in {"readline", "drain", "wait_closed"}
       \/ conns[i].pc = "anext" /\ conns[i].g.pc \in {"await", "pull"}
    /\ Set(i, Cancelled(conns[i]))

Next ==
    \/ Main
    \/ Accept
    \/ \E i \in 1..Len(conns) :
        \/ \E line \in PeerLines : PeerSend(i, line)
        \/ PeerEof(i)
        \/ PeerReset(i)
        \/ DoReadLine(i)
        \/ DoIterate(i)
        \/ DoDrain(i)
        \/ DoWaitClosed(i)
        \/ DoWaitClosedRaises(i)
        \/ Cancel(i)

Spec == InitWorker /\ [][Next]_vars

\* The worker under fair scheduling, with peers that stay connected: the
\* event loop runs the listener and every task that can run, and the peers
\* send requests and close their sending side as they will.  The requests
\* are for a handler that never completes, for one that streams and for
\* one that fails after an await.
FairLines ==
    {RequestFor(m) \o <<"\n">> : m \in {"sleep", "numbers", "onboard-project"}}

\* the task of connection i runs from the await it is suspended at
Task(i) ==
    /\ i \in 1..Len(conns)
    /\ DoReadLine(i) \/ DoIterate(i) \/ DoDrain(i) \/ DoWaitClosed(i)

NextFair ==
    \/ Main
    \/ Accept
    \/ \E i \in 1..Len(conns) :
        \/ \E line \in FairLines : PeerSend(i, line)
        \/ PeerEof(i)
        \/ Task(i)

\* the event loop runs the listener's accept callback and each task that is
\* ready; nothing is assumed of the peers
Fairness ==
    /\ WF_vars(Accept)
    /\ \A i \in 1..MaxConns : WF_vars(Task(i))

SpecFair == InitWorker /\ [][NextFair]_vars /\ Fairness

-----------------------------------------------------------------------------
(* weaver.errors: the dependency error classifier.  A message is searched  *)
(* as its sequence of lexical tokens: maximal runs of word characters, and *)
(* single characters of any other kind.                                    *)

\* the messages that occur in the records of this model, as tokens
Messages ==
    {<<"boom">>,
     <<"unknown", " ", "method", ":", " ", "nope">>,
     <<"missing", " ", "dependency", " ", "serena", "-", "agent">>,
     <<"Missing", " ", "Dependency", ":", " ", "foo", "-", "lib">>,
     <<"missing", " ", "dependency", ":", " ", "foo", "-", "lib">>,
     <<"missing", " ", "dependency">>,
     <<"missing", " ", "dependency", ";">>,
     <<"Serena", "-", "Agent", " ", "not", " ", "found">>,
     <<"serena", " ", "agent", " ", "unavailable">>,
     <<"serena", "-", "agent", " ", "is", " ", "required">>,
     <<"agent", " ", "missing">>,
     <<"serena", " ", "missing">>,
     <<"serena", "-", "agent", " ", "is", " ", "required", ";", " ", "install", " ",
       "it", " ", "via", " ", "'", "uv", " ", "add", " ", "serena", "-", "agent", "'", ".">>,
     <<"OnboardingTool", " ", "not", " ", "found", " ", "in", " ", "serena">>,
     <<"ListDiagnosticsTool", " ", "not", " ", "found", " ", "in", " ", "serena">>,
     <<"Onboarding", " ", "failed", ":", " ", "boom">>,
     <<"Diagnostics", " ", "failed", ":", " ", "boom">>,
     <<>>}

MessageTexts == {Concat(m) : m \in Messages}
TokensOfText == [s \in MessageTexts |-> CHOOSE m \in Messages : Concat(m) = s]

\* the tokens of a message text
Tokens(s) == IF s \in MessageTexts THEN TokensOfText[s] ELSE <<s>>

\* tokens that are runs of word characters (\w+)
Words ==
    {"boom", "unknown", "method", "nope", "missing", "Missing", "dependency",
     "Dependency", "serena", "Serena", "agent", "Agent", "foo", "lib", "not",
     "found", "unavailable", "is", "required", "install", "it", "via", "uv",
     "add", "in", "failed", "OnboardingTool", "ListDiagnosticsTool", "Onboarding",
     "Diagnostics"}

\* str.lower, for re.IGNORECASE
Lower(w) ==
    CASE w = "Missing" -> "missing"
      [] w = "Dependency" -> "dependency"
      [] w = "Serena" -> "serena"
      [] w = "Agent" -> "agent"
      [] OTHER -> w

IsSpace(tok) == tok \in {" ", "\t"}

\* _missing_dep_pattern.search: \bmissing dependency\b[:\-]?\s*\w+
MissingDepPattern(toks) ==
    \E i \in 1..Len(toks) :
        /\ i + 3 <= Len(toks)
        /\ Lower(toks[i]) = "missing" /\ toks[i + 1] = " "
        /\ Lower(toks[i + 2]) = "dependency"
        /\ LET j == IF toks[i + 3] \in {":", "-"} THEN i + 4 ELSE i + 3 IN
           \E k \in j..Len(toks) :
                /\ toks[k] \in Words
                /\ \A n \in j..(k - 1) : IsSpace(toks[n])

\* words in which "unavailable" or "missing" occurs
HoldsKeyword(w) == Lower(w) \in {"unavailable", "missing"}

\* _serena_agent_pattern.search:
\* \bserena[- ]agent\b.*(not found|unavailable|missing)
SerenaAgentPattern(toks) ==
    \E i \in 1..Len(toks) :
        /\ i + 2 <= Len(toks)
        /\ Lower(toks[i]) = "serena" /\ toks[i + 1] \in {"-", " "}
        /\ Lower(toks[i + 2]) = "agent"
        /\ \E k \in (i + 3)..Len(toks) :
                \/ HoldsKeyword(toks[k])
                \/ /\ k + 2 <= Len(toks)
                   /\ Lower(toks[k]) = "not" /\ toks[k + 1] = " "
                   /\ Lower(toks[k + 2]) = "found"

\* DependencyErrorCode
DependencyErrorCodes ==
    {"MISSING_DEPENDENCY", "SERENA_AGENT_NOT_FOUND", "DEPENDENCY_UNAVAILABLE",
     "DEPENDENCY_VERSION_MISMATCH"}

\* str(val), for the values a message field holds here
StrOf(val) ==
    CASE val.t = "str" -> val.v
      [] val.t = "none" -> "None"
      [] val.t = "num" -> val.v
      [] OTHER -> "<" \o val.t \o ">"

\* is_dependency_error without its test of the type field
IsDependencyErrorAnyType(record) ==
    LET code == IF Truthy(DictGet(record, "error_code"))
                THEN DictGet(record, "error_code")
                ELSE DictGet(record, "code")
    IN  IF code.t = "str" /\ code.v \in DependencyErrorCodes THEN TRUE
        ELSE LET msg == StrOf(IF HasKey(record, "message")
                              THEN Get(record, "message") ELSE Str(""))
             IN  MissingDepPattern(Tokens(msg)) \/ SerenaAgentPattern(Tokens(msg))

\* is_dependency_error with the agent pattern satisfied by the agent's name
\* alone
IsDependencyErrorLoosePattern(record) ==
    IF DictGet(record, "type") # Str("error") THEN FALSE
    ELSE LET code == IF Truthy(DictGet(record, "error_code"))
                     THEN DictGet(record, "error_code")
                     ELSE DictGet(record, "code")
         IN  IF code.t = "str" /\ code.v \in DependencyErrorCodes THEN TRUE
             ELSE LET toks == Tokens(StrOf(IF HasKey(record, "message")
                                   THEN Get(record, "message") ELSE Str("")))
                  IN  \/ MissingDepPattern(toks)
                      \/ \E i \in 1..Len(toks) : Lower(toks[i]) = "serena"

\* is_dependency_error(record), record being the pairs of a dict
IsDependencyError(record) ==
    IF DictGet(record, "type") # Str("error") THEN FALSE
    ELSE LET code == IF Truthy(DictGet(record, "error_code"))
                     THEN DictGet(record, "error_code")
                     ELSE DictGet(record, "code")
         IN  IF code.t = "str" /\ code.v \in DependencyErrorCodes THEN TRUE
             ELSE LET msg == StrOf(IF HasKey(record, "message")
                                   THEN Get(record, "message") ELSE Str(""))
                  IN  MissingDepPattern(Tokens(msg)) \/ SerenaAgentPattern(Tokens(msg))

-----------------------------------------------------------------------------
(* is_dependency_error on its own: one record, classified *)

Field(key, val) == IF val = Absent THEN <<>> ELSE << <<key, val>> >>

TypeValues == {Absent, None_, Str("error"), Str("Error"), Str("result"), Str("info")}

CodeValues ==
    {Absent, None_, Str(""), Str("SOME_OTHER_ERROR"), Str("missing_dependency")}
    \cup {Str(c) : c \in DependencyErrorCodes}

MessageValues == {Absent, None_} \cup {Str(s) : s \in MessageTexts}

\* the records given to the classifier
Records ==
    {Field("type", t) \o Field("error_code", e) \o Field("code", c) \o Field("message", m) :
        t \in TypeValues, e \in CodeValues, c \in CodeValues, m \in MessageValues}

InitClassifier ==
    /\ HANDLERS = <<>>
    /\ handlers = EmptyTable
    /\ bound = EmptyTable
    /\ phase = "classify"
    /\ raised = NoCall
    /\ gen = NoGen
    /\ out = <<>>
    /\ conns = <<>>
    /\ client = NoClient
    /\ sock = NewPath("absent")
    /\ calc \in {[NoCalc EXCEPT !.fn = "is_dependency_error", !.arg = Dict(record)] :
                    record \in Records}
    /\ workers = <<>>

\* is_dependency_error(record) returns
Classify ==
    /\ calc.fn = "is_dependency_error"
    /\ calc.res = NoResult
    /\ calc' = [calc EXCEPT !.res = Return(PyBool(IsDependencyError(calc.arg.v)))]
    /\ UNCHANGED <<HANDLERS, handlers, phase, raised, bound, gen, out, conns, client, sock, workers>>

NextClassifier == Classify

SpecClassifier == InitClassifier /\ [][NextClassifier]_vars

-----------------------------------------------------------------------------
(* The records on the wire: msjson.encode(value) and                       *)
(* msjson.decode(data, type=Kind) for the records of weaver_schemas        *)

\* the types of fields
IntType == [k |-> "int", of |-> {}]
FloatType == [k |-> "float", of |-> {}]
StrType == [k |-> "str", of |-> {}]
BoolType == [k |-> "bool", of |-> {}]
OptStrType == [k |-> "str | None", of |-> {}]
Literal(texts) == [k |-> "literal", of |-> texts]
Record(kind) == [k |-> "struct", of |-> {kind}]
TupleOf(kind) == [k |-> "tuple", of |-> {kind}]

\* the fields of the record kinds in declaration order: name, type, default
PrimitivesSchema(kind) ==
    CASE kind = "Position" ->
            << <<"line", IntType, Absent>>, <<"character", IntType, Absent>> >>
      [] kind = "Range" ->
            << <<"start", Record("Position"), Absent>>,
               <<"end", Record("Position"), Absent>> >>
      [] OTHER ->
            << <<"file", StrType, Absent>>, <<"range", Record("Range"), Absent>> >>

DiagnosticSchema ==
    << <<"location", Record("Location"), Absent>>,
       <<"severity", Literal({"Error", "Warning", "Info", "Hint"}), Absent>>,
       <<"code", OptStrType, Absent>>,
       <<"message", StrType, Absent>>,
       <<"type", Literal({"diagnostic"}), Str("diagnostic")>> >>

CodeEditSchema ==
    << <<"file", StrType, Absent>>, <<"range", Record("Range"), Absent>>,
       <<"new_text", StrType, Absent>>,
       <<"type", Literal({"edit"}), Str("edit")>> >>

ReportsSchema(kind) ==
    CASE kind = "ImpactReport" ->
            << <<"diagnostics", TupleOf("Diagnostic"), Absent>>,
               <<"type", Literal({"impact"}), Str("impact")>> >>
      [] kind = "TestResult" ->
            << <<"name", StrType, Absent>>,
               <<"status", Literal({"passed", "failed", "error", "skipped"}), Absent>>,
               <<"output", OptStrType, None_>>,
               <<"type", Literal({"test-result"}), Str("test-result")>> >>
      [] OTHER ->
            << <<"details", StrType, Absent>>,
               <<"type", Literal({"onboarding"}), Str("onboarding")>> >>

ProjectStatusSchema ==
    << <<"pid", IntType, Absent>>, <<"rss_mb", FloatType, Absent>>,
       <<"ready", BoolType, Absent>>, <<"message", StrType, Absent>>,
       <<"type", Literal({"project-status"}), Str("project-status")>> >>

Schema(kind) ==
    CASE kind = "Diagnostic" -> DiagnosticSchema
      [] kind = "CodeEdit" -> CodeEditSchema
      [] kind \in {"Location", "Position", "Range"} -> PrimitivesSchema(kind)
      [] kind \in {"ImpactReport", "OnboardingReport", "TestResult"} -> ReportsSchema(kind)
      [] OTHER -> ProjectStatusSchema

\* the numbers of this model that JSON writes without a fraction
IntTexts == {"0", "1", "2", "3", "42"}

ValidationError(msg) == Raise("ValidationError", msg)

\* ConvertScalar taking null for no type
ConvertScalarNoNull(type, val) ==
    CASE type.k = "int" ->
            IF val.t = "num" /\ val.v \in IntTexts THEN Return(val)
            ELSE ValidationError("Expected int")
      [] type.k = "float" ->
            IF val.t # "num" THEN ValidationError("Expected float")
            ELSE IF val.v \in IntTexts THEN Return(Num(val.v \o ".0")) ELSE Return(val)
      [] type.k = "str" ->
            IF val.t = "str" THEN Return(val) ELSE ValidationError("Expected str")
      [] type.k = "bool" ->
            IF val.t = "bool" THEN Return(val) ELSE ValidationError("Expected bool")
      [] type.k = "str | None" ->
            IF val.t = "str" THEN Return(val) ELSE ValidationError("Expected str")
      [] OTHER ->
            IF val.t = "str" /\ val.v \in type.of THEN Return(val)
            ELSE ValidationError("Invalid enum value")

\* the conversion of a parsed JSON value to a field type that is not a
\* record or a tuple
ConvertScalar(type, val) ==
    CASE type.k = "int" ->
            IF val.t = "num" /\ val.v \in IntTexts THEN Return(val)
            ELSE ValidationError("Expected int")
      [] type.k = "float" ->
            IF val.t # "num" THEN ValidationError("Expected float")
            ELSE IF val.v \in IntTexts THEN Return(Num(val.v \o ".0")) ELSE Return(val)
      [] type.k = "str" ->
            IF val.t = "str" THEN Return(val) ELSE ValidationError("Expected str")
      [] type.k = "bool" ->
            IF val.t = "bool" THEN Return(val) ELSE ValidationError("Expected bool")
      [] type.k = "str | None" ->
            IF val.t \in {"str", "none"} THEN Return(val)
            ELSE ValidationError("Expected str | null")
      [] OTHER ->
            IF val.t = "str" /\ val.v \in type.of THEN Return(val)
            ELSE ValidationError("Invalid enum value")

\* the conversion of a parsed JSON value to a record kind, a tuple of
\* records, or a scalar type: the first failure, or the value.  Keys of the
\* object that the kind does not declare are skipped.
RECURSIVE Convert(_, _)
RECURSIVE ConvertFields(_, _)
RECURSIVE ConvertItems(_, _)
ConvertFields(schema, pairs) ==
    IF schema = <<>> THEN Return(Struct(<<>>))
    ELSE LET f == Head(schema)
             this == IF HasKey(pairs, f[1]) THEN Convert(f[2], Get(pairs, f[1]))
                     ELSE IF f[3] = Absent
                     THEN ValidationError("Object missing required field " \o f[1])
                     ELSE Return(f[3])
             rest == ConvertFields(Tail(schema), pairs)
         IN  IF this.o = "raise" THEN this
             ELSE IF rest.o = "raise" THEN rest
             ELSE Return(Struct(<< <<f[1], this.val>> >> \o rest.val.v))
ConvertItems(type, xs) ==
    IF xs = <<>> THEN Return(List(<<>>))
    ELSE LET this == Convert(type, Head(xs))
             rest == ConvertItems(type, Tail(xs))
         IN  IF this.o = "raise" THEN this
             ELSE IF rest.o = "raise" THEN rest
             ELSE Return(List(<<this.val>> \o rest.val.v))
Convert(type, val) ==
    CASE type.k = "struct" ->
            IF val.t # "dict" THEN ValidationError("Expected object")
            ELSE ConvertFields(Schema(CHOOSE kind \in type.of : TRUE), val.v)
      [] type.k = "tuple" ->
            IF val.t # "list" THEN ValidationError("Expected array")
            ELSE ConvertItems(Record(CHOOSE kind \in type.of : TRUE), val.v)
      [] OTHER -> ConvertScalar(type, val)

\* the values encoded and decoded in this model
SomeRanges ==
    {Range(Position(Num("1"), Num("0")), Position(Num("1"), Num("3"))),
     Range(Position(Num("2"), Num("0")), Position(Num("2"), Num("1")))}

SomeDiagnostics ==
    {Diagnostic(Location(Str(file), range), Str(severity), code, Str(message)) :
        file \in {"foo.py"}, range \in SomeRanges,
        severity \in {"Error", "Warning", "Info", "Hint"},
        code \in {None_, Str("E123")}, message \in {"oh no", ""}}

SuccessValues ==
    [Diagnostic |-> SomeDiagnostics,
     CodeEdit |-> {CodeEdit(Str("foo.py"), range, Str(new_text)) :
                        range \in SomeRanges, new_text \in {"bar", ""}},
     ImpactReport |-> {ImpactReport(List(<<>>))}
                      \cup {ImpactReport(List(<<d>>)) : d \in SomeDiagnostics}
                      \cup {ImpactReport(List(<<ToolDiagnostics[1], ToolDiagnostics[2]>>))},
     TestResult |-> {TestResult(Str("pytest"), Str(status), output) :
                        status \in {"passed", "failed", "error", "skipped"},
                        output \in {None_, Str("ok"), Str("")}},
     OnboardingReport |-> {OnboardingReport(Str(details)) :
                            details \in {"project onboarding", ""}},
     ProjectStatus |-> {ProjectStatus(Num(pid), Num(rss), PyBool(ready), Str(message)) :
                            pid \in {"1", "42"}, rss \in {"0.5", "0.0"},
                            ready \in BOOLEAN, message \in {"ok", "serena missing"}}]

Kinds == DOMAIN SuccessValues

\* what a JSON text denotes: objects and arrays, whatever was encoded
RECURSIVE AsJson(_)
AsJson(val) ==
    CASE val.t \in {"struct", "dict"} ->
            Dict([i \in 1..Len(val.v) |-> <<val.v[i][1], AsJson(val.v[i][2])>>])
      [] val.t = "list" -> List([i \in 1..Len(val.v) |-> AsJson(val.v[i])])
      [] OTHER -> val

\* the JSON parser on the texts of this model
WireTexts == UNION {{Text(v) : v \in SuccessValues[kind]} : kind \in Kinds}
WireDoc ==
    [s \in WireTexts |->
        AsJson(CHOOSE v \in UNION {SuccessValues[kind] : kind \in Kinds} : Text(v) = s)]

\* msjson.decode(data, type=Kind)
DecodeAs(kind, data) ==
    LET s == Concat(data) IN
    IF s \notin WireTexts THEN Raise("DecodeError", "JSON is malformed")
    ELSE Convert(Record(kind), WireDoc[s])

InitCodec ==
    /\ HANDLERS = <<>>
    /\ handlers = EmptyTable
    /\ bound = EmptyTable
    /\ phase = "codec"
    /\ raised = NoCall
    /\ gen = NoGen
    /\ out = <<>>
    /\ conns = <<>>
    /\ client = NoClient
    /\ sock = NewPath("absent")
    /\ calc \in {[NoCalc EXCEPT !.fn = "roundtrip", !.kind = kind, !.arg = value] :
                    kind \in Kinds, value \in UNION {SuccessValues[k] : k \in Kinds}}
    /\ calc.arg \in SuccessValues[calc.kind]
    /\ workers = <<>>

\* data = msjson.encode(value)
EncodeValue ==
    /\ calc.fn = "roundtrip"
    /\ calc.mid = NoResult
    /\ calc' = [calc EXCEPT !.mid = Encode(calc.arg)]
    /\ UNCHANGED <<HANDLERS, handlers, phase, raised, bound, gen, out, conns, client, sock, workers>>

\* msjson.decode(data, type=Kind)
DecodeValue ==
    /\ calc.fn = "roundtrip"
    /\ calc.mid.o = "return"
    /\ calc.res = NoResult
    /\ calc' = [calc EXCEPT !.res = DecodeAs(calc.kind, calc.mid.val.v)]
    /\ UNCHANGED <<HANDLERS, handlers, phase, raised, bound, gen, out, conns, client, sock, workers>>

NextCodec == EncodeValue \/ DecodeValue

SpecCodec == InitCodec /\ [][NextCodec]_vars

-----------------------------------------------------------------------------
(* handle_list_diagnostics applied on its own to filters and to the        *)
(* diagnostics its tool returns                                            *)

SeverityFilters ==
    {Absent, None_, Str(""), Str("error"), Str("ERROR"), Str("Warning"), Str("hint")}

FileFilters ==
    {Absent, None_, List(<<>>), List(<<Str("foo.py")>>),
     List(<<Str("./FOO.py"), Str("bar.py")>>), List(<<Str("src/../foo.py")>>),
     List(<<Str("")>>), List(<<Str(".")>>)}

\* a diagnostic of the tool
DiagnosticAt(file, severity) ==
    Diagnostic(Location(Str(file),
                        Range(Position(Num("1"), Num("0")), Position(Num("1"), Num("1")))),
               Str(severity), Str("E1"), Str("boom"))

\* what the tool returns
ToolReturns ==
    {<<>>,
     <<DiagnosticAt("", "Error")>>,
     <<DiagnosticAt("bar.py", "Warning"), DiagnosticAt("Foo.Py", "Error")>>,
     <<DiagnosticAt("src/bar.py", "Hint"), DiagnosticAt("", "Error"),
       DiagnosticAt("Foo.Py", "Error")>>,
     <<DiagnosticAt("Foo.Py", "Error"), DiagnosticAt("bar.py", "Warning"),
       DiagnosticAt("", "Warning"), DiagnosticAt("src/bar.py", "Hint")>>}

InitFilter ==
    /\ HANDLERS = <<>>
    /\ handlers = EmptyTable
    /\ bound = EmptyTable
    /\ phase = "filter"
    /\ raised = NoCall
    /\ gen = NoGen
    /\ out = <<>>
    /\ conns = <<>>
    /\ client = NoClient
    /\ sock = NewPath("absent")
    /\ calc \in {[NoCalc EXCEPT !.fn = "handle_list_diagnostics",
                                !.arg = Dict(Field("severity", severity)
                                             \o Field("files", files)),
                                !.mid = Return(List(data))] :
                    severity \in SeverityFilters, files \in FileFilters,
                    data \in ToolReturns}
    /\ workers = <<>>

\* the generator is run to its end: the diagnostics it yields, in order
ListDiagnostics ==
    /\ calc.fn = "handle_list_diagnostics"
    /\ calc.res = NoResult
    /\ calc' = [calc EXCEPT !.res = Return(List(Included(calc.arg.v, calc.mid.val.v)))]
    /\ UNCHANGED <<HANDLERS, handlers, phase, raised, bound, gen, out, conns, client, sock, workers>>

NextFilter == ListDiagnostics

SpecFilter == InitFilter /\ [][NextFilter]_vars

------------------------------------------------------------------------------
(* Two worker processes started on one socket path.  Each was spawned by a *)
(* caller whose probe found the path unreachable; each runs start_server,  *)
(* one system call at a time, and the calls of the two interleave freely.  *)

\* connections dialled to the path while and after the workers start
MaxDials == 2

\* the two racing processes
Racers == {1, 2}

\* the path at the start: nothing there, or the socket file of a worker that
\* has gone
StartEntries == {"absent", "stale"}

\* stat.S_ISSOCK(os.stat(path).st_mode)
IsSocket(entry) == entry \in {"stale", "live", "bound"}

\* the socket path shared by the racers: what is there, whose listening
\* socket the file names (0: nobody's), and the binds performed, in order
SharedPath(entry) == [was |-> entry, now |-> entry, by |-> 0, binds |-> <<>>]

\* a bind that succeeds beside an existing file and leaves the file alone
BindBesideExisting(path, i) ==
    IF path.now = "absent"
    THEN [path |-> [path EXCEPT !.now = "bound", !.by = i,
                                !.binds = Append(@, [w |-> i, ok |-> TRUE])],
          exc |-> Stop]
    ELSE [path |-> [path EXCEPT !.binds = Append(@, [w |-> i, ok |-> TRUE])],
          exc |-> Stop]

\* sock.bind(path) inside asyncio.start_unix_server, called by racer i: the
\* path afterwards and the exception raised
Bind(path, i) ==
    IF path.now = "absent"
    THEN [path |-> [path EXCEPT !.now = "bound", !.by = i,
                                !.binds = Append(@, [w |-> i, ok |-> TRUE])],
          exc |-> Stop]
    ELSE [path |-> [path EXCEPT !.binds = Append(@, [w |-> i, ok |-> FALSE])],
          exc |-> Raise("OSError", "Address is already in use")]

\* a racer: the caller that may spawn it, then the worker process
NewRacer == [pc |-> "probe", exc |-> Stop, accepted |-> 0]

InitListen ==
    /\ HANDLERS = <<>>
    /\ handlers = EmptyTable
    /\ bound = EmptyTable
    /\ phase = "listen"
    /\ raised = NoCall
    /\ gen = NoGen
    /\ out = <<>>
    /\ conns = <<>>
    /\ client = NoClient
    /\ sock \in {SharedPath(entry) : entry \in StartEntries}
    /\ calc = NoCalc
    /\ workers = [i \in Racers |-> NewRacer]

Race(i, racer, path) ==
    /\ workers' = [workers EXCEPT ![i] = racer]
    /\ sock' = path
    /\ UNCHANGED <<HANDLERS, handlers, phase, raised, bound, gen, out, conns, client, calc>>

\* ensure_daemon_running, line 46: the caller's probe answers
CallerProbe(i) ==
    /\ workers[i].pc = "probe"
    /\ Race(i, [workers[i] EXCEPT !.pc = IF sock.now = "bound" THEN "reachable"
                                          ELSE "spawn"], sock)

\* ensure_daemon_running, line 48: spawn_daemon; the worker process runs up
\* to start_server
Spawn(i) ==
    /\ workers[i].pc = "spawn"
    /\ Race(i, [workers[i] EXCEPT !.pc = "exists"], sock)

\* start_server, line 118: if path.exists()
PathExists(i) ==
    /\ workers[i].pc = "exists"
    /\ Race(i, [workers[i] EXCEPT !.pc = IF Exists(sock.now) THEN "unlink" ELSE "stat"],
            sock)

\* start_server, line 119: path.unlink()
PathUnlink(i) ==
    /\ workers[i].pc = "unlink"
    /\ LET u == Unlink(sock.now) IN
       IF u.exc.o = "raise"
       THEN Race(i, [workers[i] EXCEPT !.pc = "failed", !.exc = u.exc], sock)
       ELSE Race(i, [workers[i] EXCEPT !.pc = "stat"],
                 [sock EXCEPT !.now = u.now, !.by = 0])

\* asyncio.start_unix_server: os.stat(path), FileNotFoundError passed over
ServerStat(i) ==
    /\ workers[i].pc = "stat"
    /\ Race(i, [workers[i] EXCEPT !.pc = IF IsSocket(sock.now) THEN "remove" ELSE "bind"],
            sock)

\* asyncio.start_unix_server: os.remove(path), FileNotFoundError passed over
ServerRemove(i) ==
    /\ workers[i].pc = "remove"
    /\ Race(i, [workers[i] EXCEPT !.pc = "bind"],
            IF sock.now = "absent" THEN sock ELSE [sock EXCEPT !.now = "absent", !.by = 0])

\* asyncio.start_unix_server: sock.bind(path), then listening
ServerBind(i) ==
    /\ workers[i].pc = "bind"
    /\ LET r == Bind(sock, i) IN
       Race(i, [workers[i] EXCEPT !.pc = IF r.exc.o = "raise" THEN "failed"
                                          ELSE "listening",
                                  !.exc = r.exc],
            r.path)

\* a peer connects to the path: the connection goes to the listening socket
\* the file names
Dial ==
    /\ sock.now = "bound"
    /\ workers[1].accepted + workers[2].accepted < MaxDials
    /\ Race(sock.by, [workers[sock.by] EXCEPT !.accepted = @ + 1], sock)

NextListen ==
    \/ \E i \in Racers :
            \/ CallerProbe(i)
            \/ Spawn(i)
            \/ PathExists(i)
            \/ PathUnlink(i)
            \/ ServerStat(i)
            \/ ServerRemove(i)
            \/ ServerBind(i)
    \/ Dial

SpecListen == InitListen /\ [][NextListen]_vars

-----------------------------------------------------------------------------
(* The client: weaver.client.rpc_call with ensure_daemon_running and       *)
(* _stream_response.  One call runs as one task, without interruption from *)
(* one await to the next.                                                  *)

\* lines of a response stream
MaxRespLines == 3

\* for _ in range(50)
PollBudget == 50

\* what connecting to the socket path gives at the moment
ConnectOutcomes == {"ok", "absent", "refused", "denied", "timeout", "oserror"}

\* anyio.connect_unix(path) under fail_after(timeout): the stream, or the
\* exception raised
ConnectUnix(outcome) ==
    CASE outcome = "ok" -> Return(Object)
      [] outcome = "absent" -> Raise("FileNotFoundError", "No such file or directory")
      [] outcome = "refused" -> Raise("ConnectionRefusedError", "Connection refused")
      [] outcome = "denied" -> Raise("PermissionError", "Permission denied")
      [] outcome = "timeout" -> Raise("TimeoutError", "")
      [] OTHER -> Raise("OSError", "AF_UNIX path too long")

\* the classes an exception class derives from, itself included
Bases(cls) ==
    CASE cls \in {"FileNotFoundError", "PermissionError", "TimeoutError", "ConnectionError"}
            -> {cls, "OSError", "Exception"}
      [] cls \in {"ConnectionRefusedError", "ConnectionResetError"}
            -> {cls, "ConnectionError", "OSError", "Exception"}
      [] cls \in BaseOnly -> {cls}
      [] OTHER -> {cls, "Exception"}

\* can_connect with an except clause for the two commonest failures only
can_connect_narrow(outcome) ==
    LET r == ConnectUnix(outcome) IN
    IF r.o = "raise"
    THEN IF Bases(r.cls) \cap {"FileNotFoundError", "ConnectionRefusedError"} # {}
         THEN Return(Bool("false")) ELSE r
    ELSE Return(Bool("true"))

\* weaver.sockets.can_connect: what it returns, or the exception that
\* leaves it
can_connect(outcome) ==
    LET r == ConnectUnix(outcome) IN
    IF r.o = "raise"
    THEN IF Bases(r.cls) \cap {"FileNotFoundError", "ConnectionRefusedError",
                               "PermissionError", "TimeoutError", "OSError"} # {}
         THEN Return(Bool("false")) ELSE r
    ELSE Return(Bool("true"))

\* if await can_connect(socket_path)
CanConnect(outcome) == can_connect(outcome) = Return(Bool("true"))

\* a byte sequence that is not valid in the sink's encoding, and what
\* bytes.decode(errors="replace") puts in its place
BadBytes == "<ff>"
ReplacementChar == "<U+FFFD>"

\* data.decode(encoding=..., errors="replace")
DecodeText(data) ==
    [n \in 1..Len(data) |-> IF data[n] = BadBytes THEN ReplacementChar ELSE data[n]]

\* the records of the response lines in this model, as msjson.decode without
\* a type gives them
ErrorDoc(m) == Dict(<< <<"message", Str(Concat(m))>>, <<"type", Str("error")>> >>)

ResponseDocs ==
    {ErrorDoc(m) : m \in Messages}
    \cup {Dict(<< <<"type", Str("error")>>, <<k, Str(c)>> >>) :
            k \in {"error_code", "code"},
            c \in DependencyErrorCodes \cup {"SOME_OTHER_ERROR"}}
    \cup {Dict(<< <<"type", Str("result")>>, <<"value", Num("42")>> >>),
          Dict(<< <<"type", Str("info")>>,
                  <<"message", Str("missing dependency: foo-lib")>> >>),
          Dict(<< <<"foo", Str("bar")>> >>),
          Dict(<<>>), Num("42"), List(<<>>), Str("missing dependency: foo-lib")}

ResponseTexts == {Text(d) : d \in ResponseDocs}
DocOfResponse == [s \in ResponseTexts |-> CHOOSE d \in ResponseDocs : Text(d) = s]

\* msjson.decode(data): the document, or DecodeError
Decode(data) ==
    LET s == Concat(data) IN
    IF s \in ResponseTexts THEN Return(DocOfResponse[s])
    ELSE Raise("DecodeError", "JSON is malformed")

\* a text sink: what was written and not flushed, what has been flushed
NewSink(closed) == [pending |-> <<>>, shown |-> <<>>, closed |-> closed]

\* _process_response_line forgetting to flush
ProcessResponseLineUnflushed(data, stdout) ==
    IF stdout.closed
    THEN [stdout |-> stdout, flagged |-> FALSE,
          exc |-> Raise("ValueError", "I/O operation on closed file.")]
    ELSE LET record == Decode(rstrip(data)) IN
         [stdout |-> [stdout EXCEPT !.pending = @ \o DecodeText(data)],
          flagged |-> record.o = "return" /\ record.val.t = "dict"
                      /\ IsDependencyError(record.val.v),
          exc |-> Stop]

\* _process_response_line giving up on a line that does not decode
ProcessResponseLineStrict(data, stdout) ==
    IF stdout.closed
    THEN [stdout |-> stdout, flagged |-> FALSE,
          exc |-> Raise("ValueError", "I/O operation on closed file.")]
    ELSE LET record == Decode(rstrip(data))
             shown == [stdout EXCEPT !.shown = @ \o stdout.pending \o DecodeText(data),
                                     !.pending = <<>>]
         IN  IF record.o = "raise" THEN [stdout |-> shown, flagged |-> FALSE, exc |-> record]
             ELSE [stdout |-> shown,
                   flagged |-> record.val.t = "dict" /\ IsDependencyError(record.val.v),
                   exc |-> Stop]

\* _process_response_line raising on a record of type "error"
ProcessResponseLineRaising(data, stdout) ==
    IF stdout.closed
    THEN [stdout |-> stdout, flagged |-> FALSE,
          exc |-> Raise("ValueError", "I/O operation on closed file.")]
    ELSE LET record == Decode(rstrip(data))
             shown == [stdout EXCEPT !.shown = @ \o stdout.pending \o DecodeText(data),
                                     !.pending = <<>>]
         IN  IF record.o = "return" /\ record.val.t = "dict"
                /\ DictGet(record.val.v, "type") = Str("error")
             THEN [stdout |-> shown, flagged |-> FALSE,
                   exc |-> Raise("RuntimeError", "error record received")]
             ELSE [stdout |-> shown, flagged |-> FALSE, exc |-> Stop]

\* _process_response_line(data, stdout): the sink afterwards, the value
\* returned, and the exception raised (Stop when none)
ProcessResponseLine(data, stdout) ==
    IF stdout.closed
    THEN [stdout |-> stdout, flagged |-> FALSE,
          exc |-> Raise("ValueError", "I/O operation on closed file.")]
    ELSE LET record == Decode(rstrip(data))
             shown == [stdout EXCEPT !.shown = @ \o stdout.pending \o DecodeText(data),
                                     !.pending = <<>>]
         IN  [stdout |-> shown,
              flagged |-> record.o = "return" /\ record.val.t = "dict"
                          /\ IsDependencyError(record.val.v),
              exc |-> Stop]

\* the calls made in this model: rpc_call(method, params)
ClientCalls ==
    {[method |-> "project-status", params |-> None_],
     [method |-> "echo", params |-> Dict(<< <<"value", Num("42")>> >>)]}

\* msjson.encode({"method": method, "params": params or {}}) + b"\n"
RequestLine(method, params) ==
    <<Text(Dict(<< <<"method", Str(method)>>,
                   <<"params", IF Truthy(params) THEN params ELSE Dict(<<>>)>> >>)),
      "\n">>

\* rpc_call up to the first await: the first probe is under way
NewCall(env, call, closed) ==
    [pc |-> "probe", env |-> env, method |-> call.method, params |-> call.params,
     probes |-> 0, spawns |-> 0, polls |-> 0, opened |-> 0, wrote |-> <<>>,
     eof |-> FALSE, stream |-> <<>>, got |-> <<>>, stdout |-> NewSink(closed),
     error |-> FALSE, closes |-> 0, exc |-> Stop, outcome |-> "", trace |-> <<>>,
     seen |-> <<>>, links |-> <<>>]

\* rpc_call ends: it returns ("success"), raises typer.Exit(1) ("exit"), or
\* another exception leaves it ("raise")
Exit(k, outcome, exc) == [k EXCEPT !.pc = "done", !.outcome = outcome, !.exc = exc]

\* lines 99-101: except Exception ... raise typer.Exit(1)
EnsureFailed(k, exc) == Exit(k, "exit", exc)

\* a connection of the client: what it was opened for, whether it is still
\* open, and what has been written on it
Link(use, open, wrote) == [use |-> use, open |-> open, wrote |-> wrote]

\* Probe returning with the stream still open
ProbeLeftOpen(k) ==
    IF ConnectUnix(k.env).o = "return"
    THEN Append(k.links, Link("probe", TRUE, <<>>))
    ELSE k.links

\* can_connect, lines 12 and 22: the connections of the client after the
\* probe; a stream that connect_unix gave is closed again before the return
Probe(k) ==
    IF ConnectUnix(k.env).o = "return"
    THEN Append(k.links, Link("probe", FALSE, <<>>))
    ELSE k.links

\* FirstProbe spawning even though the probe succeeded
FirstProbeAlwaysSpawns(k, spawned) ==
    LET k1 == [k EXCEPT !.probes = @ + 1, !.spawns = @ + 1] IN
    IF CanConnect(k.env) THEN [k1 EXCEPT !.pc = "connect"]
    ELSE [k1 EXCEPT !.polls = 1, !.pc = "poll"]

\* ensure_daemon_running, lines 46-50: the first probe answers; spawned
\* tells whether spawn_daemon returns or raises
FirstProbe(k, spawned) ==
    LET k1 == [k EXCEPT !.probes = @ + 1, !.links = Probe(k)] IN
    IF can_connect(k.env).o = "raise" THEN EnsureFailed(k1, can_connect(k.env))
    ELSE IF CanConnect(k.env) THEN [k1 EXCEPT !.pc = "connect"]
    ELSE IF spawned THEN [k1 EXCEPT !.spawns = @ + 1, !.polls = 1, !.pc = "poll"]
    ELSE EnsureFailed([k1 EXCEPT !.spawns = @ + 1],
                      Raise("OSError", "cannot spawn weaverd"))

\* Poll going on to sleep whatever the probe says
PollIgnoresProbe(k) == [k EXCEPT !.probes = @ + 1, !.pc = "sleep"]

\* lines 50-52: a probe of the polling loop answers
Poll(k) ==
    LET k1 == [k EXCEPT !.probes = @ + 1, !.links = Probe(k)] IN
    IF can_connect(k.env).o = "raise" THEN EnsureFailed(k1, can_connect(k.env))
    ELSE IF CanConnect(k.env) THEN [k1 EXCEPT !.pc = "connect"]
    ELSE [k1 EXCEPT !.pc = "sleep"]

\* Sleep giving up one poll early
SleepShortBudget(k) ==
    IF k.polls < PollBudget - 1 THEN [k EXCEPT !.polls = @ + 1, !.pc = "poll"]
    ELSE EnsureFailed(k, Raise("RuntimeError", "weaverd failed to start"))

\* lines 49-53: anyio.sleep(0.1) returns; the next poll, or the budget is
\* spent
Sleep(k) ==
    IF k.polls < PollBudget THEN [k EXCEPT !.polls = @ + 1, !.pc = "poll"]
    ELSE EnsureFailed(k, Raise("RuntimeError", "weaverd failed to start"))

\* the finally clause up to its await: writer.close()
FinallyClose(k, exc) ==
    [k EXCEPT !.pc = "wait_closed", !.closes = @ + 1, !.exc = exc,
              !.trace = Append(@, "close"),
              !.links = [n \in 1..Len(@) |->
                            IF @[n].use = "request" THEN [@[n] EXCEPT !.open = FALSE]
                            ELSE @[n]]]

\* Connect writing the request twice
ConnectWritesTwice(k, stream) ==
    IF k.env = "ok"
    THEN [k EXCEPT !.pc = "drain", !.opened = @ + 1, !.stream = stream,
                   !.wrote = RequestLine(k.method, k.params)
                                \o RequestLine(k.method, k.params),
                   !.trace = <<"open", "write", "write">>]
    ELSE Exit(k, "raise", Raise("ConnectionRefusedError", "Connection refused"))

\* lines 103-107: open_unix_connection returns or raises; the request line
\* is written.  stream is all the peer will send before it closes.
Connect(k, stream) ==
    IF k.env = "ok"
    THEN [k EXCEPT !.pc = "drain", !.opened = @ + 1, !.stream = stream,
                   !.wrote = RequestLine(k.method, k.params),
                   !.trace = <<"open", "write">>,
                   !.links = Append(@, Link("request", TRUE,
                                            RequestLine(k.method, k.params)))]
    ELSE Exit(k, "raise", Raise("ConnectionRefusedError", "Connection refused"))

\* Drained going on to read without write_eof()
DrainedNoEof(k, ok) ==
    IF ok THEN [k EXCEPT !.pc = "read"]
    ELSE FinallyClose(k, Raise("ConnectionResetError", "Connection lost"))

\* lines 107-109: writer.drain() returns or raises; writer.write_eof()
Drained(k, ok) ==
    IF ok THEN [k EXCEPT !.pc = "read", !.eof = TRUE, !.trace = Append(@, "eof")]
    ELSE FinallyClose(k, Raise("ConnectionResetError", "Connection lost"))

\* StreamLine stopping at the first flagged line
StreamLineStopAtFlag(k, ok) ==
    LET n == IF Newline(k.stream) > 0 THEN Newline(k.stream) ELSE Len(k.stream)
        data == SubSeq(k.stream, 1, n)
        r == ProcessResponseLine(data, k.stdout)
    IN  IF ~ok THEN FinallyClose(k, Raise("ConnectionResetError", "Connection lost"))
        ELSE IF data = <<>> THEN FinallyClose([k EXCEPT !.trace = Append(@, "end")], Stop)
        ELSE IF r.exc.o = "raise" THEN FinallyClose(k, r.exc)
        ELSE IF r.flagged
        THEN FinallyClose([k EXCEPT !.stream = SubSeq(k.stream, n + 1, Len(k.stream)),
                                    !.got = Append(@, data), !.stdout = r.stdout,
                                    !.error = TRUE, !.trace = Append(@, "read")], Stop)
        ELSE [k EXCEPT !.stream = SubSeq(k.stream, n + 1, Len(k.stream)),
                       !.got = Append(@, data), !.stdout = r.stdout,
                       !.trace = Append(@, "read")]

\* _stream_response, one turn of its loop: reader.readline() returns a
\* line, returns b"" at the end of the stream, or raises
StreamLine(k, ok) ==
    LET n == IF Newline(k.stream) > 0 THEN Newline(k.stream) ELSE Len(k.stream)
        data == SubSeq(k.stream, 1, n)
        r == ProcessResponseLine(data, k.stdout)
    IN  IF ~ok THEN FinallyClose(k, Raise("ConnectionResetError", "Connection lost"))
        ELSE IF data = <<>> THEN FinallyClose([k EXCEPT !.trace = Append(@, "end")], Stop)
        ELSE IF r.exc.o = "raise" THEN FinallyClose(k, r.exc)
        ELSE [k EXCEPT !.stream = SubSeq(k.stream, n + 1, Len(k.stream)),
                       !.got = Append(@, data), !.stdout = r.stdout,
                       !.error = IF r.flagged THEN TRUE ELSE k.error,
                       !.trace = Append(@, "read")]

\* Closed reporting success whatever the flag says
ClosedIgnoresFlag(k, ok) ==
    IF ~ok THEN Exit(k, "raise", Raise("ConnectionResetError", "Connection lost"))
    ELSE IF k.exc.o = "raise" THEN Exit(k, "raise", k.exc)
    ELSE Exit(k, "success", Stop)

\* lines 112-114: writer.wait_closed() returns or raises; the pending
\* exception goes on, or the flag decides
Closed(k, ok) ==
    IF ~ok THEN Exit(k, "raise", Raise("ConnectionResetError", "Connection lost"))
    ELSE IF k.exc.o = "raise" THEN Exit(k, "raise", k.exc)
    ELSE IF k.error THEN Exit(k, "exit", Raise("Exit", "1"))
    ELSE Exit(k, "success", Stop)

\* the bodies of the response lines peers send to the client
ClientBodies ==
    {<<Text(Dict(<< <<"type", Str("result")>>, <<"value", Num("42")>> >>))>>,
     <<Text(ErrorDoc(<<"boom">>))>>,
     <<Text(ErrorDoc(<<"Missing", " ", "Dependency", ":", " ", "foo", "-", "lib">>))>>,
     <<Text(Dict(<< <<"type", Str("error")>>,
                    <<"error_code", Str("MISSING_DEPENDENCY")>> >>))>>,
     <<"MALFORMED OUTPUT">>,
     <<BadBytes>>}

\* the response streams: up to n lines, the last one perhaps unterminated
RECURSIVE StreamsOf(_)
StreamsOf(n) ==
    IF n = 0 THEN {<<>>}
    ELSE StreamsOf(n - 1)
         \cup {body \o <<"\n">> \o s : body \in ClientBodies, s \in StreamsOf(n - 1)}

Streams ==
    StreamsOf(MaxRespLines)
    \cup {s \o body : s \in StreamsOf(MaxRespLines - 1), body \in ClientBodies}

InitClient ==
    /\ HANDLERS = <<>>
    /\ handlers = EmptyTable
    /\ bound = EmptyTable
    /\ phase = "client"
    /\ raised = NoCall
    /\ gen = NoGen
    /\ out = <<>>
    /\ conns = <<>>
    /\ client \in {NewCall(env, call, closed) :
                    env \in ConnectOutcomes, call \in ClientCalls, closed \in BOOLEAN}
    /\ sock = NewPath("absent")
    /\ calc = NoCalc
    /\ workers = <<>>

Become(k) ==
    /\ client' = k
    /\ UNCHANGED <<HANDLERS, handlers, phase, raised, bound, gen, out, conns, sock, calc, workers>>

\* the spawned worker starts listening
WorkerStarts ==
    /\ client.pc \in {"poll", "sleep"}
    /\ client.spawns > 0 /\ client.env # "ok"
    /\ Become([client EXCEPT !.env = "ok"])

\* the worker stops listening
WorkerStops ==
    /\ client.pc \in {"poll", "sleep", "connect"}
    /\ client.env = "ok"
    /\ Become([client EXCEPT !.env = "refused"])

\* history: what each probe so far has found
Seen(k) == Append(k.seen, CanConnect(k.env))

\* the first can_connect answers
DoFirstProbe ==
    /\ client.pc = "probe"
    /\ \E spawned \in BOOLEAN :
            Become([FirstProbe(client, spawned) EXCEPT !.seen = Seen(client)])

\* a can_connect of the polling loop answers
DoPoll ==
    /\ client.pc = "poll"
    /\ Become([Poll(client) EXCEPT !.seen = Seen(client)])

DoSleep ==
    /\ client.pc = "sleep"
    /\ Become(Sleep(client))

DoConnect ==
    /\ client.pc = "connect"
    /\ \E stream \in Streams : Become(Connect(client, stream))

DoDrained ==
    /\ client.pc = "drain"
    /\ \E ok \in BOOLEAN : Become(Drained(client, ok))

DoStreamLine ==
    /\ client.pc = "read"
    /\ \E ok \in BOOLEAN : Become(StreamLine(client, ok))

DoClosed ==
    /\ client.pc = "wait_closed"
    /\ \E ok \in BOOLEAN : Become(Closed(client, ok))

NextClient ==
    \/ WorkerStarts
    \/ WorkerStops
    \/ DoFirstProbe
    \/ DoPoll
    \/ DoSleep
    \/ DoConnect
    \/ DoDrained
    \/ DoStreamLine
    \/ DoClosed

SpecClient == InitClient /\ [][NextClient]_vars

-----------------------------------------------------------------------------
(* Properties of RPCDispatcher.handle, stated on the request it was given  *)
(* (gen.data), the table, the chunks yielded so far (out) and the way the  *)
(* generator ended (gen.exit)                                              *)

IsPrefix(a, b) == Len(a) <= Len(b) /\ a = SubSeq(b, 1, Len(a))

\* the wire form of the error record {type: "error", message: message}
ErrorRecord(message) == <<"{\"message\":\"" \o message \o "\",\"type\":\"error\"}">>

TheRequest == DecodeAsRequest(gen.data)
ValidRequest == TheRequest.o = "return"
TheMethod == TheRequest.val.method
\* absent or null params count as empty
TheKwargs == IF TheRequest.val.params.t = "dict" THEN TheRequest.val.params.v ELSE <<>>
IsRegistered == ValidRequest /\ TheMethod \in DOMAIN handlers

\* what the handler does before it has a result: the outcome of the call,
\* or of awaiting what the call returned
BeforeResult ==
    LET c == Call(handlers[TheMethod], TheKwargs) IN
    IF c.o = "return" /\ c.val.t = "coroutine" THEN c.val.v ELSE c

HasResult == IsRegistered /\ BeforeResult.o = "return"
TheResult == BeforeResult.val
IsStream == HasResult /\ TheResult.t \in {"async_generator", "generator", "list", "dict"}

Ended == gen.pc = "closed" /\ gen.exit = Stop
Progressing == gen.pc = "closed" \/ Runnable(gen)

\* a result whose production ends normally: every item can be encoded and
\* the source ends without failing
EndsNormally ==
    /\ HasResult
    /\ IF IsStream
       THEN /\ \A i \in 1..Len(IterItems(TheResult)) : Encodable(IterItems(TheResult)[i])
            /\ IterEnd(TheResult) = Stop
       ELSE Encodable(TheResult)

\* the items normalizing the result produces, encoded, in production order
Produced ==
    IF TheResult.t = "bytes" THEN <<TheResult.v>>
    ELSE IF IsStream
    THEN [i \in 1..Len(IterItems(TheResult)) |-> <<Text(IterItems(TheResult)[i])>>]
    ELSE <<<<Text(TheResult)>>>>

\* C1: for a registered method and valid params whose result ends normally,
\* the chunks handle has yielded are at every moment the first chunks of the
\* encoded items the result produces, in production order, and when the
\* stream has ended they are exactly all of them, with no chunk after.
C1_StreamIsProduction ==
    (phase = "dispatch" /\ EndsNormally) =>
        /\ IsPrefix(out, Produced)
        /\ Progressing
        /\ gen.pc = "closed" => (Ended /\ out = Produced)

\* a three-item stream has been delivered in full
C1_Witness ==
    /\ phase = "dispatch" /\ EndsNormally /\ Ended
    /\ IsStream /\ Len(out) = 3
    /\ TheRequest.val.params = None_

\* a streaming handler that produces N encodable items and then fails
FailsAfter(N) ==
    /\ HasResult
    /\ TheResult.t \in {"async_generator", "generator"}
    /\ Len(TheResult.v.items) = N
    /\ \A i \in 1..N : Encodable(TheResult.v.items[i])
    /\ IsException(TheResult.v.end)

\* C2: when a streaming handler produces N items and then fails, handle
\* yields the N encoded items in order, then one error record carrying the
\* failure's message, and ends: N+1 chunks, never more.
C2_MidstreamError ==
    \A N \in 0..2 :
        (phase = "dispatch" /\ FailsAfter(N)) =>
            /\ IsPrefix(out, [i \in 1..N |-> <<Text(TheResult.v.items[i])>>]
                                \o <<ErrorRecord(TheResult.v.end.msg)>>)
            /\ Progressing
            /\ gen.pc = "closed" => (Ended /\ Len(out) = N + 1)

\* the test's stream: 1, then the error record "boom", then the end
C2_Witness ==
    /\ phase = "dispatch" /\ FailsAfter(1) /\ Ended
    /\ out = << <<"1">>, ErrorRecord("boom") >>

\* the details of the decode errors
DecodeDetails == {DecodeAsRequest(d).msg : d \in {x \in RequestData : DecodeAsRequest(x).o = "raise"}}

\* chunk is an error record whose message contains "invalid request"
IsInvalidRequestError(chunk) ==
    \E pre \in {""}, post \in {": " \o d : d \in DecodeDetails} \cup {""} :
        chunk = ErrorRecord(pre \o "invalid request" \o post)

\* C3: for a request line that does not decode to a valid request, handle
\* yields exactly one chunk, an error record whose message contains
\* "invalid request", invokes no handler, and ends.
C3_InvalidRequest ==
    (phase = "dispatch" /\ ~ValidRequest) =>
        /\ ~gen.called
        /\ Len(out) <= 1
        /\ Len(out) = 1 => IsInvalidRequestError(out[1])
        /\ Progressing
        /\ gen.pc # "created" => Len(out) = 1
        /\ gen.pc = "closed" => Ended

\* the test's bad line has been answered
C3_Witness ==
    /\ phase = "dispatch" /\ gen.data = <<"not-json">> /\ Ended
    /\ Len(out) = 1

\* C4: for a method name X that is not in the handler table, handle yields
\* exactly one chunk, the error record with message "unknown method: X",
\* invokes no handler, and ends.
C4_UnknownMethod ==
    (phase = "dispatch" /\ ValidRequest /\ ~IsRegistered) =>
        /\ ~gen.called
        /\ Len(out) <= 1
        /\ Len(out) = 1 => out[1] = ErrorRecord("unknown method: " \o TheMethod)
        /\ Progressing
        /\ gen.pc # "created" => Len(out) = 1
        /\ gen.pc = "closed" => Ended

C4_Witness ==
    /\ phase = "dispatch" /\ ValidRequest /\ ~IsRegistered /\ Ended
    /\ out = <<ErrorRecord("unknown method: missing")>>

\* C5: when a registered handler raises an exception before it has a result
\* (at call time or while awaited), handle yields exactly one chunk, the
\* error record whose message is the exception's message, and ends.
C5_HandlerRaises ==
    (phase = "dispatch" /\ IsRegistered /\ IsException(BeforeResult)) =>
        /\ Len(out) <= 1
        /\ Len(out) = 1 => out[1] = ErrorRecord(BeforeResult.msg)
        /\ Progressing
        /\ gen.pc \in {"yield_last", "closed"} => Len(out) = 1
        /\ gen.pc = "closed" => Ended

\* a handler that raised while awaited has been answered
C5_Witness ==
    /\ phase = "dispatch" /\ IsRegistered /\ Ended
    /\ Call(handlers[TheMethod], TheKwargs).o = "return"
    /\ IsException(BeforeResult)
    /\ out = <<ErrorRecord("boom")>>

-----------------------------------------------------------------------------
(* Properties of registration *)

\* C6: RPCDispatcher.register rejects a second registration under a name
\* that is already bound: the call fails, and every name stays bound to the
\* handler of its first registration.
C6_RegisterRejectsDuplicates ==
    /\ \A n \in DOMAIN handlers : handlers[n] = bound[n]
    /\ (raised.op = "register" /\ raised.had) => raised.exc # ""

NoDuplicates(H) == \A i, j \in 1..Len(H) : i # j => H[i][1] # H[j][1]

\* C7: rpc_handler raises ValueError when the name is already in HANDLERS
\* and then leaves HANDLERS as it was; no name occurs twice in HANDLERS.
C7_RpcHandlerRejectsDuplicates ==
    /\ NoDuplicates(HANDLERS)
    /\ (raised.op = "rpc_handler" /\ raised.had) =>
            (raised.exc = "ValueError" /\ HANDLERS = raised.before)

\* the test's second decoration of "dup", with another function, has raised
C7_Witness ==
    /\ raised.op = "rpc_handler" /\ raised.had /\ raised.exc = "ValueError"
    /\ raised.name = "dup" /\ raised.func = "second"
    /\ HANDLERS = << <<"dup", "first">> >>

-----------------------------------------------------------------------------
(* Properties of handle_client, stated on each connection's record: the    *)
(* lines read from it with the bytes written in answer to each (log), the  *)
(* generator serving the last of them (g), and the writer's close count    *)

\* the bytes handle_client writes when it serves the generator g to its end
\* with nothing intervening, and the generator as that leaves it
RECURSIVE Served(_, _)
Served(g, written) ==
    IF g.pc = "closed" \/ ~Runnable(g) THEN [out |-> written, g |-> g]
    ELSE LET r == Resume(g, handlers) IN
         Served(r.g, IF r.ev = "yield" THEN written \o r.chunk \o <<"\n">>
                     ELSE written)

\* the answer to the line data on a connection that has served nothing yet
Fresh(data) == Served(NewGen(rstrip(data)), <<>>)

EndsWith(a, b) == Len(b) <= Len(a) /\ SubSeq(a, Len(a) - Len(b) + 1, Len(a)) = b

\* the message of the error a request line runs into: a framing error, a
\* routing error, a handler-execution error, a mid-stream failure; "" if none
ErrorOf(data) ==
    LET r == DecodeAsRequest(rstrip(data)) IN
    IF r.o = "raise" THEN "invalid request: " \o r.msg
    ELSE IF r.val.method \notin DOMAIN handlers
    THEN "unknown method: " \o r.val.method
    ELSE LET kwargs == IF r.val.params.t = "dict" THEN r.val.params.v ELSE <<>>
             called == Call(handlers[r.val.method], kwargs)
         IN  IF IsException(called) THEN called.msg
             ELSE IF called.o # "return" THEN ""
             ELSE IF called.val.t = "coroutine"
             THEN (IF IsException(called.val.v) THEN called.val.v.msg ELSE "")
             ELSE IF called.val.t \in {"async_generator", "generator"}
                     /\ IsException(called.val.v.end)
                     /\ \A k \in 1..Len(called.val.v.items) :
                            Encodable(called.val.v.items[k])
             THEN called.val.v.end.msg
             ELSE ""

\* the connection has ended, or is ending, for a reason that is not the
\* request it served last: its peer is gone or its task was cancelled
EndedFromOutside(c) ==
    \/ c.lost
    \/ c.eof /\ Newline(c.inbox) = 0
    \/ c.exc.cls \in BaseOnly

\* the last request read on c has been served to the end of its generator
ServedLast(c) == c.log # <<>> /\ c.g.pc = "closed"

\* C8: an exception other than cancellation/interrupt that escapes the
\* dispatcher's generator while a request is served is answered with one
\* error chunk carrying its message, and the connection stays open.
C8_EscapedExceptionAnswered ==
    \A i \in 1..Len(conns) :
        LET c == conns[i] IN
        (ServedLast(c) /\ IsException(c.g.exit)) =>
            /\ EndsWith(c.log[Len(c.log)].out, ErrorRecord(c.g.exit.msg) \o <<"\n">>)
            /\ c.pc \in {"wait_closed", "done"} => EndedFromOutside(c)

\* C9: a request line that runs into a framing, routing, handler-execution
\* or mid-stream error is answered with its error record and the connection
\* is not closed for it; every line read on a connection, whatever was
\* served before it, is answered as on a fresh connection; a waiting line
\* is read; and the listener goes on accepting.
C9_ErrorsKeepConnection ==
    /\ \A i \in 1..Len(conns) :
        LET c == conns[i] IN
        /\ \A k \in 1..Len(c.log) :
            LET e == c.log[k]
                f == Fresh(e.data)
                finished == k < Len(c.log) \/ (c.g.pc = "closed" /\ c.g.exit.o = "stop")
            IN  /\ IsPrefix(e.out, f.out)
                /\ finished =>
                    /\ e.out = f.out
                    /\ f.g.pc = "closed" /\ f.g.exit.o = "stop"
                /\ (finished /\ ErrorOf(e.data) # "") =>
                    /\ EndsWith(e.out, ErrorRecord(ErrorOf(e.data)) \o <<"\n">>)
                    /\ (k = Len(c.log) /\ c.pc # "readline") => EndedFromOutside(c)
        /\ (c.pc = "readline" /\ Newline(c.inbox) > 0) => ENABLED DoReadLine(i)
    /\ (phase = "serving" /\ Len(conns) < MaxConns) => ENABLED Accept

\* after a failed stream was answered with its error record, the next
\* request on the connection got its full stream, and another connection
\* has been accepted
C9_Witness ==
    /\ Len(conns) = 2
    /\ LET c == conns[1] IN
       /\ c.pc = "readline" /\ Len(c.log) = 2 /\ c.g.pc = "closed"
       /\ c.log[1].data = RequestFor("boom") \o <<"\n">>
       /\ c.log[1].out = <<"1", "\n">> \o ErrorRecord("boom") \o <<"\n">>
       /\ c.log[2].data = RequestFor("numbers") \o <<"\r", "\n">>
       /\ c.log[2].out = <<"0", "\n", "1", "\n", "2", "\n">>

\* the ways out of handle_client
ExitPaths == {"eof", "read_error", "write_error", "serve_exception", "cancelled"}

\* C10: the writer of a connection is closed when handle_client leaves its
\* loop, by whichever path, and never closed a second time.
C10_ClosedExactlyOnce ==
    \A i \in 1..Len(conns) :
        LET c == conns[i] IN
        /\ c.closes <= 1
        /\ c.pc \in {"wait_closed", "done"} <=> c.closes = 1
        /\ c.pc \in {"wait_closed", "done"} <=> c.exit \in ExitPaths

\* one connection has ended on an exception raised while serving, another
\* on a failed write
C10_Witness ==
    /\ Len(conns) = 2
    /\ conns[1].pc = "done" /\ conns[1].exit = "serve_exception"
    /\ conns[1].closes = 1
    /\ conns[2].pc = "done" /\ conns[2].exit = "write_error"
    /\ conns[2].closes = 1

-----------------------------------------------------------------------------
(* Cancellation of a connection's task *)

\* C11: a cancellation delivered while a connection's task reads, serves a
\* handler or writes is not answered with an error chunk, ends the serve
\* loop, releases the connection, and is the exception that leaves
\* handle_client.
C11_CancellationPropagates ==
    \A i \in 1..Len(conns) :
        LET c == conns[i] IN
        c.exit = "cancelled" =>
            /\ c.pc \in {"wait_closed", "done"}
            /\ c.closes = 1
            /\ c.exc.cls \in BaseOnly
            /\ c.log # <<>> =>
                    ~EndsWith(c.log[Len(c.log)].out, ErrorRecord("") \o <<"\n">>)

-----------------------------------------------------------------------------
(* Order of service on one connection *)

\* the bytes of the lines read so far, in the order they were read
RECURSIVE LinesRead(_)
LinesRead(log) ==
    IF log = <<>> THEN <<>> ELSE Head(log).data \o LinesRead(Tail(log))

\* C12: on each connection the lines are read in arrival order, none
\* skipped or read twice; every request but the last read has its whole
\* response, and nothing else, written for it; and the task is back at
\* readline only when the response to the last request read is complete.
C12_OneAtATime ==
    \A i \in 1..Len(conns) :
        LET c == conns[i] IN
        /\ LinesRead(c.log) \o c.inbox = c.arrived
        /\ \A k \in 1..(Len(c.log) - 1) :
                LET f == Fresh(c.log[k].data) IN
                /\ f.g.pc = "closed" /\ f.g.exit.o = "stop"
                /\ c.log[k].out = f.out
        /\ (c.pc = "readline" /\ c.log # <<>>) =>
                /\ c.g.pc = "closed" /\ c.g.exit.o = "stop"
                /\ c.log[Len(c.log)].out = Fresh(c.log[Len(c.log)].data).out

\* two requests on one connection: the first has its whole stream, the
\* second, read after it, is being answered
C12_Witness ==
    \E i \in 1..Len(conns) :
        LET c == conns[i] IN
        /\ Len(c.log) = 2 /\ c.pc = "drain" /\ c.inbox = <<>>
        /\ c.log[1].data = RequestFor("numbers") \o <<"\n">>
        /\ c.log[1].out = <<"0", "\n", "1", "\n", "2", "\n">>
        /\ c.log[2].data = RequestFor("boom") \o <<"\n">>
        /\ c.log[2].out = <<"1", "\n">>

(* Properties of rpc_call, stated on the call's record: the probes made    *)
(* and what each found (seen), the lines received (got), the sink          *)
(* (stdout), the operations on the connection in order (trace), and the    *)
(* way the call ended (outcome, exc)                                       *)

\* the line is one the classifier flags
Flagged(data) ==
    LET record == Decode(rstrip(data)) IN
    record.o = "return" /\ record.val.t = "dict" /\ IsDependencyError(record.val.v)

AnyFlagged(lines) == \E n \in 1..Len(lines) : Flagged(lines[n])

Undecodable(data) == Decode(rstrip(data)).o = "raise"

\* readline has returned b"": the peer closed and every line was read
StreamDrained == \E n \in 1..Len(client.trace) : client.trace[n] = "end"

FailedToStart == Raise("RuntimeError", "weaverd failed to start")

IOExceptions == {"OSError", "ConnectionRefusedError", "ConnectionResetError", "ValueError"}

\* C13: rpc_call ends in success or in failure.  It succeeds exactly when
\* the whole stream was drained, no line of it was flagged, the worker was
\* reachable and no local I/O exception occurred; every failure has one of
\* the three causes: a flagged line, the worker unreachable after the start
\* budget, a local I/O exception.
C13_TwoOutcomes ==
    client.pc = "done" =>
        LET flagged == AnyFlagged(client.got)
            unreachable == client.exc = FailedToStart
            ioerror == client.exc.o = "raise" /\ client.exc.cls \in IOExceptions
        IN  /\ client.outcome \in {"success", "exit", "raise"}
            /\ client.outcome = "success"
                    <=> StreamDrained /\ ~flagged /\ ~unreachable /\ ~ioerror
            /\ client.outcome # "success" => flagged \/ unreachable \/ ioerror

\* a call that succeeded on a stream made of an error record that is not a
\* dependency error and a line that does not decode
C13_Witness ==
    /\ client.pc = "done"
    /\ client.outcome = "success"
    /\ Len(client.got) = 2
    /\ \E n \in 1..2 : Undecodable(client.got[n])
    /\ \E n \in 1..2 : client.got[n] = <<Text(ErrorDoc(<<"boom">>)), "\n">>

\* the lines one after another
RECURSIVE Joined(_)
Joined(lines) == IF lines = <<>> THEN <<>> ELSE Head(lines) \o Joined(Tail(lines))

\* an I/O exception is on its way out of the call
IOFailure == client.exc.o = "raise" /\ client.exc.cls \in IOExceptions

\* C14: a flagged line does not end the reading.  The failure flag is set
\* exactly when some line received so far was flagged, so no later line
\* clears it; and a call with a flagged line leaves the reading loop, short
\* of an I/O failure, only at the end of the stream, with every line
\* received displayed, and then ends in failure.
C14_FlagDrainsFirst ==
    /\ client.error = AnyFlagged(client.got)
    /\ (AnyFlagged(client.got) /\ client.pc \in {"wait_closed", "done"} /\ ~IOFailure)
            => /\ StreamDrained
               /\ client.stream = <<>>
               /\ client.stdout.shown = DecodeText(Joined(client.got))
    /\ (AnyFlagged(client.got) /\ client.pc = "done") => client.outcome \in {"exit", "raise"}

\* a call that failed after three lines, the first of them flagged and the
\* two after it not, all three displayed
C14_Witness ==
    /\ client.pc = "done"
    /\ client.exc = Raise("Exit", "1")
    /\ Len(client.got) = 3
    /\ Flagged(client.got[1]) /\ ~Flagged(client.got[2]) /\ ~Flagged(client.got[3])
    /\ client.stdout.shown = DecodeText(Joined(client.got))

\* C15 as stated: the sink holds the lines received, in arrival order and
\* unchanged, with nothing written and not flushed, whenever the caller is
\* about to read again or has stopped reading.
C15_WrittenUnchanged ==
    /\ client.stdout.shown = Joined(client.got)
    /\ client.stdout.pending = <<>>

\* C15, amended: the sink holds the lines received, in arrival order, each
\* decoded in the sink's encoding with the bytes that are invalid in it
\* replaced by U+FFFD and otherwise unchanged, with nothing written and not
\* flushed, whenever the caller is about to read again or has stopped
\* reading; a sink that refuses the write has been given nothing, and no
\* line counts as received.
C15_WrittenAsDecoded ==
    /\ client.stdout.shown = DecodeText(Joined(client.got))
    /\ client.stdout.pending = <<>>
    /\ client.stdout.closed => client.stdout.shown = <<>> /\ client.got = <<>>

\* two lines received and displayed, one of them with bytes invalid in the
\* sink's encoding, while the peer has more to send
C15_Witness ==
    /\ client.pc = "read"
    /\ Len(client.got) = 2
    /\ client.stream # <<>>
    /\ client.got[2] = <<BadBytes, "\n">>
    /\ client.stdout.shown = client.got[1] \o <<ReplacementChar, "\n">>

\* the next line readline will return
NextLine ==
    SubSeq(client.stream, 1,
           IF Newline(client.stream) > 0 THEN Newline(client.stream)
           ELSE Len(client.stream))

\* C16: a line that does not decode is written like any other, leaves the
\* failure flag as it was and leaves the caller reading; no decode failure
\* ever leaves the call, whose loop ends, short of an I/O failure, only at
\* the end of the stream; and a drained stream of undecodable lines only
\* ends in success.
C16_UndecodableTolerated ==
    /\ client.exc.o = "raise" => client.exc.cls # "DecodeError"
    /\ (client.pc = "read" /\ client.stream # <<>> /\ Undecodable(NextLine)
            /\ ~client.stdout.closed)
            => LET k == StreamLine(client, TRUE) IN
               /\ k.pc = "read"
               /\ k.got = Append(client.got, NextLine)
               /\ k.stdout.shown = client.stdout.shown \o DecodeText(NextLine)
               /\ k.stdout.pending = <<>>
               /\ k.error = client.error
    /\ (client.pc \in {"wait_closed", "done"} /\ client.opened = 1
            /\ "eof" \in {client.trace[n] : n \in 1..Len(client.trace)} /\ ~IOFailure)
            => StreamDrained
    /\ (client.pc = "done" /\ StreamDrained /\ ~IOFailure
            /\ \A n \in 1..Len(client.got) : Undecodable(client.got[n]))
            => client.outcome = "success"

\* a call that succeeded on a stream of two lines, neither of which decodes,
\* both displayed
C16_Witness ==
    /\ client.pc = "done"
    /\ client.outcome = "success"
    /\ client.got = << <<"MALFORMED OUTPUT", "\n">>, <<BadBytes, "\n">> >>
    /\ Undecodable(client.got[1]) /\ Undecodable(client.got[2])
    /\ client.stdout.shown = <<"MALFORMED OUTPUT", "\n", ReplacementChar, "\n">>

\* the request lines of the calls made, as bytes on the wire
ExpectedRequest ==
    [m \in {"project-status", "echo"} |->
        IF m = "echo" THEN <<"{\"method\":\"echo\",\"params\":{\"value\":42}}", "\n">>
        ELSE <<"{\"method\":\"project-status\",\"params\":{}}", "\n">>]

Happened(event) == \E n \in 1..Len(client.trace) : client.trace[n] = event

\* C17: a call opens at most one connection, and only after a probe has
\* found the worker; on it the first operation after opening is the write of
\* the one request line, the half-close comes before any read, and nothing
\* is opened or written after that first write.
C17_OneRequestLine ==
    /\ client.opened <= 1
    /\ client.opened = 0 => client.trace = <<>> /\ client.wrote = <<>>
    /\ client.opened = 1 =>
        LET t == client.trace IN
        /\ client.seen # <<>> /\ client.seen[Len(client.seen)]
        /\ Len(t) >= 2 /\ t[1] = "open" /\ t[2] = "write"
        /\ \A n \in 3..Len(t) : t[n] \notin {"open", "write"}
        /\ \A n \in 1..Len(t) : t[n] \in {"read", "end"} => t[3] = "eof"
        /\ client.eof = Happened("eof")
        /\ client.wrote = ExpectedRequest[client.method]

\* the caller has read a first response line, having opened, written,
\* half-closed and read in that order
C17_Witness ==
    /\ client.pc = "read"
    /\ client.method = "echo"
    /\ client.trace = <<"open", "write", "eof", "read">>
    /\ Len(client.got) = 1

\* ensure_daemon_running has returned: the call is past it, and did not end
\* in the except clause around it
Returned ==
    /\ client.pc \notin {"probe", "poll", "sleep"}
    /\ ~(client.pc = "done" /\ client.outcome = "exit" /\ client.opened = 0)

\* C18: when the first probe fails there is exactly one spawn, at most 50
\* probes follow it, no probe follows one that succeeded, and the probe that
\* succeeds makes ensure_daemon_running return.
C18_SpawnOncePollBounded ==
    LET s == client.seen IN
    /\ client.probes = Len(s)
    /\ (s # <<>> /\ ~s[1]) =>
        /\ client.spawns = 1
        /\ Len(s) <= 1 + PollBudget
        /\ \A n \in 1..(Len(s) - 1) : ~s[n]
        /\ s[Len(s)] => Returned

\* a worker found at the 50th poll: one spawn, 51 probes, and the call went
\* on to succeed
C18_Witness ==
    /\ Len(client.seen) = 1 + PollBudget
    /\ client.seen[1 + PollBudget]
    /\ ~client.seen[1]
    /\ client.spawns = 1
    /\ client.pc = "done" /\ client.outcome = "success"

\* the first probe and all the polls of the budget were made, and all failed
BudgetSpent ==
    /\ Len(client.seen) = 1 + PollBudget
    /\ \A n \in 1..Len(client.seen) : ~client.seen[n]

\* C19: once the first probe and the 50 polls have all failed, the call is
\* in its last sleep, which ends in the "weaverd failed to start" error, or
\* has ended with that error in failure; no connection was opened, nothing
\* was sent and the sink is empty.  The error is raised in no other case.
C19_FailedToStart ==
    /\ BudgetSpent =>
        /\ client.pc \in {"sleep", "done"}
        /\ client.pc = "sleep" =>
                LET k == Sleep(client) IN
                k.pc = "done" /\ k.exc = FailedToStart /\ k.outcome = "exit"
        /\ client.pc = "done" => client.exc = FailedToStart /\ client.outcome = "exit"
        /\ client.opened = 0 /\ client.trace = <<>> /\ client.wrote = <<>>
        /\ client.stdout.shown = <<>> /\ client.stdout.pending = <<>>
    /\ client.exc = FailedToStart => client.pc = "done" /\ BudgetSpent

\* a call that ended with the error after 51 failed probes
C19_Witness ==
    /\ client.pc = "done"
    /\ client.outcome = "exit"
    /\ client.exc = FailedToStart
    /\ BudgetSpent
    /\ client.spawns = 1
    /\ client.opened = 0 /\ client.stdout.shown = <<>>

\* C20: when the first probe succeeds, ensure_daemon_running has returned
\* with that one probe made, no worker spawned and no poll begun, and the
\* call never probes or spawns afterwards.
C20_FirstProbeReturns ==
    (client.seen # <<>> /\ client.seen[1]) =>
        /\ Len(client.seen) = 1
        /\ client.probes = 1
        /\ client.spawns = 0
        /\ client.polls = 0
        /\ Returned

\* a call that found the worker at its first probe and went on to succeed
C20_Witness ==
    /\ client.seen = <<TRUE>>
    /\ client.spawns = 0
    /\ client.pc = "done" /\ client.outcome = "success"
    /\ client.got # <<>>

\* C21: can_connect returns False, and raises nothing, when the connect
\* finds the address absent, is refused, is denied, times out or fails in
\* any other way of the transport, and returns True when it succeeds; so no
\* probe of a call ends it with an exception of the connect.
C21_ProbeNeverRaises ==
    /\ \A outcome \in ConnectOutcomes :
            can_connect(outcome)
                = Return(Bool(IF outcome = "ok" THEN "true" ELSE "false"))
    /\ (client.pc = "done" /\ client.outcome = "exit" /\ client.opened = 0)
            => \/ client.exc = FailedToStart
               \/ client.exc = Raise("OSError", "cannot spawn weaverd")
    /\ client.pc \in {"poll", "sleep"} => ~client.seen[Len(client.seen)]

\* a first probe that was denied permission came back False: the worker was
\* spawned and the polling began
C21_Witness ==
    /\ client.env = "denied"
    /\ client.seen = <<FALSE>>
    /\ client.pc = "poll"
    /\ client.spawns = 1

(* Properties of start_server *)

\* C22: when a socket file nobody listens on lies at the path, main gets
\* past start_server: the file is gone, the listener is bound at the path
\* and no exception was raised.
C22_StaleSocketReplaced ==
    (sock.was = "stale" /\ phase # "import") =>
        /\ phase = "serving"
        /\ sock.now = "bound"
        /\ sock.exc = Stop

\* the worker serves at a path where a stale socket file lay, with a handler
\* registered
C22_Witness ==
    /\ sock.was = "stale"
    /\ sock.now = "bound"
    /\ phase = "serving"
    /\ DOMAIN handlers # {}

(* Properties of is_dependency_error, stated on the record classified      *)
(* (calc.arg) and the value returned (calc.res)                            *)

Classified == calc.fn = "is_dependency_error" /\ calc.res # NoResult

\* the value under a key of the record classified, Absent when it has none
FieldOf(key) == IF HasKey(calc.arg.v, key) THEN Get(calc.arg.v, key) ELSE Absent

IsErrorRecord == FieldOf("type") = Str("error")

\* the value is one of the dependency codes
Recognized(val) ==
    val \in {Str("MISSING_DEPENDENCY"), Str("SERENA_AGENT_NOT_FOUND"),
             Str("DEPENDENCY_UNAVAILABLE"), Str("DEPENDENCY_VERSION_MISMATCH")}

\* C24: a record whose type field is not "error", or which has none, is
\* classified False whatever its code fields and message hold.
C24_OnlyErrorsFlagged ==
    (Classified /\ ~IsErrorRecord) => calc.res = Return(Bool("false"))

\* a record of type "info" with a dependency code and a message that matches
\* was classified False
C24_Witness ==
    /\ Classified
    /\ FieldOf("type") = Str("info")
    /\ FieldOf("code") = Str("MISSING_DEPENDENCY")
    /\ FieldOf("message") = Str("missing dependency: foo-lib")
    /\ calc.res = Return(Bool("false"))

\* C25: a record of type "error" with a dependency code under error_code or
\* under code is classified True, whatever its message and its other code
\* field hold.
C25_EitherCodeFlags ==
    (Classified /\ IsErrorRecord
        /\ (Recognized(FieldOf("error_code")) \/ Recognized(FieldOf("code"))))
        => calc.res = Return(Bool("true"))

\* the messages of this model in which the missing-dependency phrase (the
\* words "missing dependency", then a name) or the agent-name phrase (the
\* agent's name, then "not found", "unavailable" or "missing") occurs, in any
\* case of letters
PhraseMessages ==
    {Str("missing dependency serena-agent"), Str("Missing Dependency: foo-lib"),
     Str("missing dependency: foo-lib"), Str("Serena-Agent not found"),
     Str("serena agent unavailable")}

\* C26: a record of type "error" with no dependency code under either code
\* field is classified True exactly when its message holds one of the two
\* phrases; with no message, or one that holds neither, it is classified
\* False.
C26_MessageFallback ==
    (Classified /\ IsErrorRecord
        /\ ~Recognized(FieldOf("error_code")) /\ ~Recognized(FieldOf("code")))
        => calc.res = Return(PyBool(FieldOf("message") \in PhraseMessages))

\* a record with a code outside the dependency set was classified True on
\* the strength of its message, in capitals
C26_Witness ==
    /\ Classified
    /\ IsErrorRecord
    /\ FieldOf("error_code") = Str("SOME_OTHER_ERROR")
    /\ FieldOf("code") = Absent
    /\ FieldOf("message") = Str("Missing Dependency: foo-lib")
    /\ calc.res = Return(Bool("true"))

(* The client and structured error records *)

\* the line decodes to a record of type "error"
IsErrorLine(data) ==
    LET record == Decode(rstrip(data)) IN
    record.o = "return" /\ record.val.t = "dict"
        /\ DictGet(record.val.v, "type") = Str("error")

\* the caller, about to read an error record with the sink open, takes it
\* without raising: the record goes to the sink and the caller reads on
ErrorRecordTaken ==
    (client.pc = "read" /\ client.stream # <<>> /\ IsErrorLine(NextLine)
        /\ ~client.stdout.closed)
        => LET k == StreamLine(client, TRUE) IN
           /\ k.pc = "read"
           /\ k.exc = Stop
           /\ k.got = Append(client.got, NextLine)
           /\ k.stdout.shown = client.stdout.shown \o DecodeText(NextLine)
           /\ k.stdout.pending = <<>>

ErrorLineReceived == \E n \in 1..Len(client.got) : IsErrorLine(client.got[n])

\* C27 as stated: an error record is taken without raising, written and
\* read past, and a call that received one ends in failure.
C27_ErrorRecordFails ==
    /\ ErrorRecordTaken
    /\ (client.pc = "done" /\ ErrorLineReceived) => client.outcome # "success"

\* C27, amended: an error record is taken without raising, written and read
\* past; a call that received one and met no I/O failure ends in failure
\* exactly when some line it received is classified as a dependency error,
\* and in success otherwise.
C27_ErrorRecordFailsIfFlagged ==
    /\ ErrorRecordTaken
    /\ (client.pc = "done" /\ ErrorLineReceived /\ ~IOFailure)
            => (client.outcome = "success" <=> ~AnyFlagged(client.got))
    /\ (client.pc = "done" /\ ErrorLineReceived /\ ~IOFailure /\ AnyFlagged(client.got))
            => client.exc = Raise("Exit", "1")

\* a call that received the error record of a failed handler and then a
\* result, displayed both and ended in success
C27_Witness ==
    /\ client.pc = "done"
    /\ client.outcome = "success"
    /\ Len(client.got) = 2
    /\ client.got[1] = <<Text(ErrorDoc(<<"boom">>)), "\n">>
    /\ IsErrorLine(client.got[1]) /\ ~IsErrorLine(client.got[2])
    /\ client.stdout.shown = client.got[1] \o client.got[2]

(* The worker's own handlers without the analysis collaborator *)

\* the dispatcher holds the worker's handlers, in an installation where the
\* collaborator is absent or fails
CollaboratorDown == \E serena \in Serena \ {"present"} : handlers = WorkerTable(serena)

\* C23: when the collaborator is absent or fails, the response to a request
\* that needs it holds an error record which is_dependency_error flags.
C23_AbsenceIsDependencyError ==
    (/\ CollaboratorDown
     /\ Ended
     /\ ValidRequest
     /\ TheMethod \in {"onboard-project", "list-diagnostics"}
     /\ Binds(handlers[TheMethod], TheKwargs))
        => \E n \in 1..Len(out) : Flagged(out[n] \o <<"\n">>)

(* Properties of the records on the wire *)

\* C28: for each record kind, a value of the kind that was encoded and then
\* decoded as that kind comes back equal to the original, with no failure;
\* among the values are records whose optional field is None, and a report
\* with no diagnostics.
C28_RoundTrip ==
    (calc.fn = "roundtrip" /\ calc.res # NoResult) => calc.res = Return(calc.arg)

\* a test result with no output went through the wire and came back
C28_Witness ==
    /\ calc.fn = "roundtrip"
    /\ calc.kind = "TestResult"
    /\ Get(calc.arg.v, "output") = None_
    /\ calc.mid = Return(Bytes(<<"{\"name\":\"pytest\",\"status\":\"failed\",\"output\":null,\"type\":\"test-result\"}">>))
    /\ calc.res = Return(calc.arg)

(* Properties of handle_client's write loop *)

\* the response written so far to the request connection i is serving
Response(c) == c.log[Len(c.log)].out

\* the generator of connection i is resumed in this step
Advanced(i) ==
    /\ Len(conns'[i].log) = Len(conns[i].log)
    /\ conns'[i].g # conns[i].g

\* bytes are written to connection i in this step
Wrote(i) ==
    /\ Len(conns'[i].log) = Len(conns[i].log)
    /\ conns[i].log # <<>>
    /\ Response(conns'[i]) # Response(conns[i])

\* C29: in handle_client the generator is resumed only while no written
\* chunk awaits its flush; a step that writes is a resumption that yielded
\* a chunk, it writes that chunk followed by one line terminator and leaves
\* the task awaiting the flush; and the task asks for the next chunk after a
\* flush only when that flush completed, so at most one chunk is pending.
C29_FlushBeforeNext ==
    [][\A i \in 1..Len(conns) :
        /\ Advanced(i) => conns[i].pc = "anext"
        /\ Wrote(i) =>
            LET r == Resume(conns[i].g, handlers) IN
            /\ conns[i].pc = "anext"
            /\ r.ev = "yield"
            /\ "\n" \notin {r.chunk[j] : j \in 1..Len(r.chunk)}
            /\ Response(conns'[i]) = Response(conns[i]) \o r.chunk \o <<"\n">>
            /\ conns'[i].pc = "drain"
        /\ (conns[i].pc = "drain" /\ conns'[i].pc # "drain") =>
            /\ conns'[i].g = conns[i].g
            /\ conns'[i].log = conns[i].log
            /\ conns'[i].pc = "anext" <=> ~conns[i].lost /\ conns'[i].exit = ""
      ]_vars

\* the second chunk of a response awaits its flush, the first was flushed
C29_Witness ==
    \E i \in 1..Len(conns) :
        /\ conns[i].pc = "drain"
        /\ conns[i].log # <<>>
        /\ \E j \in 1..Len(Response(conns[i])) :
            /\ Response(conns[i])[j] = "\n"
            /\ j < Len(Response(conns[i]))
            /\ Response(conns[i])[Len(Response(conns[i]))] = "\n"

(* Properties of the worker under fair scheduling *)

\* the handler serving connection i awaits what never completes
Stalled(i) ==
    /\ i \in 1..Len(conns)
    /\ conns[i].pc = "anext"
    /\ conns[i].g.pc \in {"await", "pull"}
    /\ ~Runnable(conns[i].g)

\* every request that arrived on connection j has been read and has its
\* whole response, and nothing else, written for it
AnsweredInFull(j) ==
    LET c == conns[j] IN
    /\ Newline(c.inbox) = 0
    /\ c.pc \in {"readline", "wait_closed", "done"}
    /\ \A k \in 1..Len(c.log) : c.log[k].out = Fresh(c.log[k].data).out

\* C30: while the handler serving one connection never completes, the
\* listener goes on accepting connections, and under fair scheduling every
\* other connection, its peer staying connected, comes to have all the
\* requests that arrived on it answered in full, unless its own handler
\* stalls.
C30_StallIsLocal ==
    /\ ((\E i \in 1..MaxConns : Stalled(i)) /\ Len(conns) < MaxConns)
            ~> (Len(conns) = MaxConns)
    /\ \A j \in 1..MaxConns :
        (j \in 1..Len(conns) /\ \E i \in 1..MaxConns : i # j /\ Stalled(i))
            ~> (j \in 1..Len(conns)
                /\ (AnsweredInFull(j) \/ Stalled(j)))

\* the first connection is stalled and the second, accepted after the
\* stall, has the whole stream of its request
C30_Witness ==
    /\ Len(conns) = 2
    /\ Stalled(1)
    /\ conns[1].log[1].data = RequestFor("sleep") \o <<"\n">>
    /\ conns[1].log[1].out = <<>>
    /\ conns[2].pc = "readline"
    /\ conns[2].log # <<>>
    /\ conns[2].log[1].data = RequestFor("numbers") \o <<"\n">>
    /\ conns[2].log[1].out = <<"0", "\n", "1", "\n", "2", "\n">>

(* Properties of the normalisation of results *)

\* a result that is one value: a number, a text, a boolean, null, a record
\* or a name-to-value mapping
IsSingleValue == HasResult /\ TheResult.t \in {"num", "str", "bool", "none", "struct", "dict"}

\* C35: when the handler's result is one value (a number, a text, a boolean,
\* null, a record or a mapping) that can be encoded, handle yields one chunk,
\* the encoding of the whole value, and ends.
C35_SingleValueOneChunk ==
    (phase = "dispatch" /\ IsSingleValue /\ Encodable(TheResult)) =>
        /\ IsPrefix(out, << <<Text(TheResult)>> >>)
        /\ Progressing
        /\ gen.pc = "closed" => (Ended /\ out = << <<Text(TheResult)>> >>)

\* a result that is bytes already encoded
IsBlob == HasResult /\ TheResult.t \in {"bytes", "raw"}

\* C36: when the handler's result is a pre-encoded blob, handle yields one
\* chunk whose bytes are the blob's, neither encoded again nor split, and
\* ends.
C36_BlobVerbatim ==
    (phase = "dispatch" /\ IsBlob) =>
        /\ Len(out) <= 1
        /\ \A k \in 1..Len(out) : Concat(out[k]) = Concat(TheResult.v)
        /\ Progressing
        /\ gen.pc = "closed" => (Ended /\ Len(out) = 1)

\* the blob of the unit test has been yielded as it is
C36_Witness ==
    /\ phase = "dispatch" /\ IsBlob /\ Ended
    /\ TheResult = Bytes(<<"{\"kind\":\"blob\"}">>)
    /\ out = << <<"{\"kind\":\"blob\"}">> >>

\* the params of the request cannot be bound to the handler's arguments
BindingFails == IsRegistered /\ ~Binds(handlers[TheMethod], TheKwargs)

\* what Python says of the names that cannot be bound
BindingMessages ==
    LET func == handlers[TheMethod]
        taken == Required(func) \cup Optional(func)
    IN  {func \o "() got an unexpected keyword argument '" \o k \o "'" :
            k \in Keys(TheKwargs) \ taken}
        \cup {func \o "() missing 1 required positional argument: '" \o k \o "'" :
                k \in Required(func) \ Keys(TheKwargs)}

\* C37: when the params cannot be bound to the handler's arguments (a name
\* it does not take, or a required one missing), the call raises before any
\* of the body runs, and handle yields one error record carrying the
\* message, as for an exception raised by the handler, and ends.
C37_BindingFailure ==
    (phase = "dispatch" /\ BindingFails) =>
        /\ \E msg \in BindingMessages : IsPrefix(out, <<ErrorRecord(msg)>>)
        /\ ~gen.ran
        /\ Progressing
        /\ gen.pc = "closed" => (Ended /\ Len(out) = 1)

\* echo was called without its argument, and the error record was yielded
C37_Witness ==
    /\ phase = "dispatch" /\ BindingFails /\ Ended
    /\ TheMethod = "echo" /\ TheKwargs = <<>>
    /\ gen.called /\ ~gen.ran
    /\ out = <<ErrorRecord("echo() missing 1 required positional argument: 'value'")>>

(* Properties of the handler table while the worker serves *)

\* the table holds every decorated handler under its name, and nothing else
TableComplete ==
    /\ DOMAIN handlers = Names(HANDLERS)
    /\ \A i \in 1..Len(HANDLERS) : handlers[HANDLERS[i][1]] = HANDLERS[i][2]

\* C34: the handler table is complete before the first connection is
\* accepted, and no step taken once a connection exists changes it: while
\* connections are served the table is the one serving began with.
C34_TableFixedWhileServing ==
    /\ [](conns # <<>> => (phase = "serving" /\ TableComplete))
    /\ [][conns # <<>> => handlers' = handlers]_vars

\* a request is being served from the complete table
C34_Witness ==
    /\ phase = "serving" /\ TableComplete
    /\ Len(HANDLERS) = Len(Decorated)
    /\ \E i \in 1..Len(conns) : conns[i].pc = "anext" /\ conns[i].g.called

(* Properties of the lifetime of a connection *)

\* the response stream of the request read last on c has ended
StreamEnded(c) == ServedLast(c) /\ c.g.exit = Stop

\* C32 as stated: once the response stream of a connection has ended, or the
\* task has seen its peer gone, the worker has closed the connection.
C32_ClosedAtStreamEnd ==
    \A i \in 1..Len(conns) :
        LET c == conns[i] IN
        (StreamEnded(c) \/ c.exit \in {"eof", "read_error", "write_error"}) =>
            c.closes = 1

\* C32: the worker closes a connection when its task leaves the serve loop
\* and not before: on reading the peer's end of input, every line read
\* before it answered in full; on a read or a write that fails on the lost
\* connection; on an exception leaving the dispatcher's generator; or on
\* cancellation.  The end of a response stream closes nothing: the task goes
\* back to read the next line on the same connection.
C32_ClosedOnLeavingLoop ==
    \A i \in 1..Len(conns) :
        LET c == conns[i] IN
        /\ c.closes = 1 <=> c.exit \in ExitPaths
        /\ c.exit = "eof" =>
            /\ c.eof /\ c.inbox = <<>>
            /\ LinesRead(c.log) = c.arrived
            /\ \A k \in 1..Len(c.log) : c.log[k].out = Fresh(c.log[k].data).out
        /\ c.exit \in {"read_error", "write_error"} => c.lost
        /\ c.exit = "serve_exception" => c.g.exit.o = "raise"
        /\ (StreamEnded(c) /\ c.exit # "cancelled" /\ ~(c.eof /\ c.inbox = <<>>) /\ ~c.lost)
            => (c.pc = "readline" /\ c.closes = 0)

\* one connection was closed when the peer's end of input was read, its
\* request answered; another is open after its response stream ended
C32_Witness ==
    /\ Len(conns) = 2
    /\ conns[1].pc = "done" /\ conns[1].exit = "eof" /\ conns[1].closes = 1
    /\ Len(conns[1].log) = 1
    /\ conns[2].pc = "readline" /\ StreamEnded(conns[2]) /\ conns[2].closes = 0

(* Properties of handle_list_diagnostics, stated on the filters it was     *)
(* given (calc.arg), what the tool returned (calc.mid) and what it yielded *)
(* (calc.res)                                                              *)

Listed == calc.fn = "handle_list_diagnostics" /\ calc.res # NoResult

\* the filters: none when the argument is absent, None or empty
SeverityFilter == DictGet(calc.arg.v, "severity")
NoSeverityFilter == SeverityFilter.t = "none" \/ SeverityFilter.v = ""
FileFilter == DictGet(calc.arg.v, "files")
NoFileFilter == FileFilter.t = "none" \/ FileFilter.v = <<>>
FilterPaths == {NormPath(FileFilter.v[n].v) : n \in 1..Len(FileFilter.v)}

FileOf(diag) == Get(Get(diag.v, "location").v, "file").v

SeverityMatches(diag) ==
    NoSeverityFilter \/ StrLower(Get(diag.v, "severity").v) = StrLower(SeverityFilter.v)

\* the filter as stated: the normalized path is in the normalized set
Selected(diag) ==
    /\ SeverityMatches(diag)
    /\ NoFileFilter \/ NormPath(FileOf(diag)) \in FilterPaths

\* the same, with a diagnostic that names no file failing every file filter
SelectedNamed(diag) ==
    /\ SeverityMatches(diag)
    /\ NoFileFilter \/ (FileOf(diag) # "" /\ NormPath(FileOf(diag)) \in FilterPaths)

\* C39 as stated: the handler yields, in the tool's order, the diagnostics
\* whose severity equals the filter ignoring case (when one is given) and
\* whose normalized, lower-cased path is in the normalized filter set (when
\* one is given); an empty severity or file list is no filter.
C39_FilterAsStated ==
    Listed => calc.res.val.v = SelectSeq(calc.mid.val.v, Selected)

\* C39: the handler yields, in the tool's order, the diagnostics whose
\* severity equals the filter ignoring case (when one is given) and, when a
\* file filter is given, whose file path is not empty and, normalized and
\* lower-cased, is in the normalized filter set; an empty severity or file
\* list is no filter.
C39_FilterNamedFiles ==
    Listed => calc.res.val.v = SelectSeq(calc.mid.val.v, SelectedNamed)

\* the unit test's case with more diagnostics: severity "ERROR" and a path
\* written differently select the one diagnostic that matches both
C39_Witness ==
    /\ Listed
    /\ SeverityFilter = Str("ERROR")
    /\ FileFilter = List(<<Str("./FOO.py"), Str("bar.py")>>)
    /\ Len(calc.mid.val.v) = 4
    /\ calc.res.val.v = <<DiagnosticAt("Foo.Py", "Error")>>

(***************************************************************************)
(* C38.  The probe's connection and the request's connection.              *)
(***************************************************************************)

\* the supervisor, ensure_daemon_running, has returned to rpc_call
SupervisorReturned(k) == k.pc \in {"connect", "drain", "read", "wait_closed", "done"}

\* the connections opened by probes, and the ones opened for the request
ProbeLinks(k) == {n \in 1..Len(k.links) : k.links[n].use = "probe"}
RequestLinks(k) == {n \in 1..Len(k.links) : k.links[n].use = "request"}

\* C38: whenever no probe is under way, every connection a probe opened is
\* closed and nothing was ever written on it; the request is written on a
\* connection that is none of the probes' connections, and that connection
\* is opened by a step taken after the supervisor has returned.
C38_ProbeNeverCarriesRequest ==
    /\ [](phase = "client" =>
            /\ \A n \in ProbeLinks(client) :
                    ~client.links[n].open /\ client.links[n].wrote = <<>>
            /\ client.wrote # <<>> =>
                    \E n \in RequestLinks(client) :
                        /\ n \notin ProbeLinks(client)
                        /\ client.links[n].wrote = client.wrote
                        /\ \A m \in ProbeLinks(client) : m < n)
    /\ [][(phase = "client" /\ RequestLinks(client') # RequestLinks(client)) =>
            /\ SupervisorReturned(client)
            /\ RequestLinks(client') = {Len(client.links) + 1}
            /\ RequestLinks(client) = {}]_vars

\* a probe succeeded, and afterwards the request went out on its own
\* connection
C38_Witness ==
    /\ phase = "client"
    /\ ProbeLinks(client) # {}
    /\ \E n \in RequestLinks(client) : client.links[n].wrote # <<>>
    /\ client.pc = "done" /\ client.outcome = "success"

(***************************************************************************)
(* C31.  Two workers start a listener on the same socket path.             *)
(***************************************************************************)

\* every racer has come to rest: its caller found the path reachable, or
\* its worker is listening or has failed to start
Settled == \A i \in Racers : workers[i].pc \in {"reachable", "listening", "failed"}

\* a new connection to the path reaches racer i and no other
Reaches(i) == sock.now = "bound" /\ sock.by = i

\* the binds that succeeded, in order
RECURSIVE Succeeded(_)
Succeeded(binds) ==
    IF binds = <<>> THEN <<>>
    ELSE IF Head(binds).ok THEN <<Head(binds).w>> \o Succeeded(Tail(binds))
    ELSE Succeeded(Tail(binds))

Last(seq) == seq[Len(seq)]

\* C31: when both workers have run their exists-check, unlink and bind
\* steps, in whatever order, new connections to the path reach the worker
\* that performed its bind last.
C31_LastBindOwns ==
    (phase = "listen" /\ Settled /\ sock.binds # <<>>) => Reaches(Last(sock.binds).w)

\* C31, as the code has it: new connections reach the worker whose bind
\* succeeded last, and that worker is listening.  A worker fails to start
\* only when the other one's steps came between its own: unlink finds the
\* file gone, or bind finds a file in place; the other worker then listens.
C31_LastSuccessfulBindOwns ==
    /\ [](phase = "listen" =>
            /\ (sock.now = "bound" /\ Succeeded(sock.binds) # <<>>) =>
                    /\ Reaches(Last(Succeeded(sock.binds)))
                    /\ workers[sock.by].pc = "listening"
            /\ (Settled /\ sock.binds # <<>>) =>
                    /\ Succeeded(sock.binds) # <<>>
                    /\ Reaches(Last(Succeeded(sock.binds)))
            /\ \A i \in Racers :
                    workers[i].pc = "failed" =>
                        /\ workers[i].exc \in
                                {Raise("FileNotFoundError", "No such file or directory"),
                                 Raise("OSError", "Address is already in use")}
                        /\ workers[3 - i].pc \notin {"probe", "reachable", "spawn"}
                        /\ Settled => workers[3 - i].pc = "listening")
    /\ [][\A i \in Racers :
            (phase = "listen" /\ workers'[i].accepted # workers[i].accepted) =>
                Reaches(i) /\ Last(Succeeded(sock.binds)) = i]_vars

\* both workers bound the path, one after the other, and a connection made
\* afterwards went to the second
C31_Witness ==
    /\ phase = "listen"
    /\ Settled
    /\ Len(Succeeded(sock.binds)) = 2
    /\ workers[Last(sock.binds).w].accepted > 0
    /\ workers[Head(sock.binds).w].accepted = 0

------------------------------------------------------------------------------
(* One rpc_call against a worker that is serving: the client of            *)
(* weaver.client and the connection task of weaverd.server on the two ends *)
(* of one connection.  The connection stays up: no step here loses it.     *)

\* the methods called: their handlers produce nothing, one chunk, several
\* chunks, or an error chunk, and the handler of "sleep" never completes
CallMethods ==
    {"project-status", "numbers", "boom", "items", "nothing", "missing", "sleep"}

\* everything the worker has written on the connection
Written == IF conns = <<>> THEN <<>> ELSE Joined([n \in 1..Len(conns[1].log) |-> conns[1].log[n].out])

\* what has reached the client: the lines it has read and the bytes waiting
Received == Joined(client.got) \o client.stream

\* written by the worker and still on its way
InFlight == SubSeq(Written, Len(Received) + 1, Len(Written))

\* the worker's end of the connection is closed and all it wrote has
\* arrived: the client's reader is at end of stream
AtEndOfStream == conns # <<>> /\ conns[1].closes > 0 /\ InFlight = <<>>

InitCall ==
    /\ HANDLERS = [i \in 1..Len(Decorated) |-> <<Decorated[i], Decorated[i]>>]
    /\ handlers = RegisterAll(EmptyTable, HANDLERS)
    /\ bound = FirstBoundAll(EmptyTable, HANDLERS)
    /\ phase = "serving"
    /\ raised = NoCall
    /\ gen = NoGen
    /\ out = <<>>
    /\ conns = <<>>
    /\ client \in {NewCall("ok", [method |-> m, params |-> None_], FALSE) :
                    m \in CallMethods}
    /\ sock = [NewPath("absent") EXCEPT !.now = "bound"]
    /\ calc = NoCalc
    /\ workers = <<>>

\* the client task runs from the await it is suspended at
Caller ==
    \/ DoFirstProbe
    \/ client.pc = "connect" /\ Become(Connect(client, <<>>))
    \/ client.pc = "drain" /\ Become(Drained(client, TRUE))
    \/ /\ client.pc = "read"
       /\ Newline(client.stream) > 0 \/ AtEndOfStream
       /\ Become(StreamLine(client, TRUE))
    \/ client.pc = "wait_closed" /\ Become(Closed(client, TRUE))

\* the listener accepts the client's connection
AcceptCall == client.opened > Len(conns) /\ Accept

\* the request line reaches the worker
RequestArrives ==
    /\ Len(conns) = 1
    /\ conns[1].sent = 0
    /\ PeerSend(1, client.wrote)

\* the client's write_eof(), or its close(), reaches the worker
EofArrives ==
    /\ Len(conns) = 1
    /\ conns[1].sent > 0
    /\ client.eof \/ client.closes > 0
    /\ PeerEof(1)

\* what the worker wrote reaches the client
Arrive ==
    /\ InFlight # <<>>
    /\ client.closes = 0
    /\ Become([client EXCEPT !.stream = @ \o InFlight])

NextCall ==
    \/ Caller
    \/ AcceptCall
    \/ RequestArrives
    \/ EofArrives
    \/ Arrive
    \/ Task(1)

\* both event loops run every task that is ready, and the connection
\* delivers what was written on it
FairCall ==
    /\ WF_vars(Caller)
    /\ WF_vars(AcceptCall)
    /\ WF_vars(RequestArrives)
    /\ WF_vars(EofArrives)
    /\ WF_vars(Arrive)
    /\ WF_vars(Task(1))

SpecCall == InitCall /\ [][NextCall]_vars /\ FairCall

(***************************************************************************)
(* C33.  A call for a finite result stream completes.                      *)
(***************************************************************************)

\* the whole response to the client's request
WholeResponse == Fresh(client.wrote).out

\* the handler called produces a finite stream
FiniteStream == client.method # "sleep"

\* rpc_call has returned, after reading to the end of the stream
CallCompleted ==
    /\ client.pc = "done"
    /\ client.outcome = "success"
    /\ client.trace[Len(client.trace) - 1] = "end"

\* C33: under fair scheduling a call for a finite result stream completes;
\* the worker closes the connection only after it has written every chunk
\* and read end-of-input from the client, which has half-closed; and the
\* client comes to end-of-stream only with every chunk received.
C33_FiniteCallCompletes ==
    /\ (client.pc = "probe" /\ FiniteStream) ~> CallCompleted
    /\ [](conns # <<>> /\ conns[1].closes > 0 =>
            /\ conns[1].exit = "eof"
            /\ client.eof
            /\ Written = WholeResponse)
    /\ []("end" \in {client.trace[n] : n \in 1..Len(client.trace)} =>
            Joined(client.got) = WholeResponse)

\* the call for "numbers" has returned with its three chunks read
C33_Witness ==
    /\ phase = "serving" /\ conns # <<>>
    /\ CallCompleted
    /\ client.method = "numbers"
    /\ client.got = << <<"0", "\n">>, <<"1", "\n">>, <<"2", "\n">> >>
    /\ conns[1].pc = "done"

====
